---- MODULE Spec2Model ----
(***************************************************************************)
(* A model of the conversion engine of world-transmuter-engine             *)
(* (src/src/convert.rs): the DataVersion order, the converter, hook and    *)
(* walker registries of the four DataType variants, and the traversal      *)
(* their convert methods perform.                                          *)
(*                                                                         *)
(* One DataType instance is modelled.  Its variant is chosen when it is    *)
(* constructed.  Converters, hooks and walkers are caller-supplied         *)
(* callbacks; the model gives each a name and records every invocation     *)
(* the engine makes, in order, in the variable calls, with the document    *)
(* the callback is handed.  A callback carries the function the caller     *)
(* supplied: the closures of the tests in src/src/lib.rs, which change the *)
(* document or convert a part of it with another DataType, or a function   *)
(* that leaves the document alone.                                         *)
(*                                                                         *)
(* Spec builds DataTypes of all variants from callbacks that leave the     *)
(* document alone.  SpecDispatch, SpecForId, SpecCopy and SpecNested build *)
(* one variant from callbacks that change the document, and SpecVersion    *)
(* compares versions.  SpecUtils applies the utilities of src/src/utils.rs *)
(* to documents, SpecWalkers builds a MapDataType whose walkers are the    *)
(* DataWalker*Paths walkers of utils.rs, SpecRegistry calls every          *)
(* registration operation, and SpecConcurrent runs convert calls of        *)
(* several threads on one DataType, one step of each at a time.            *)
(***************************************************************************)
EXTENDS Integers, Sequences, FiniteSets, TLC

\* Greatest major version used in registrations and in convert calls.
MaxVersion == 2
\* Greatest number of registration calls made on the DataType.
MaxRegs == 3
\* Greatest step of the versions that are compared.
MaxStep == 1
\* Greatest number of keys handed to get_mut_multi.
MaxKeys == 3

----------------------------------------------------------------------------
(* DataVersion: convert.rs 7-33 *)

DataVersionNew(version, step) == [version |-> version, step |-> step]

\* DataVersionFrom with the greatest step for a bare major version.
DataVersionFromLastStep(value) == DataVersionNew(value, MaxStep)

DataVersionFrom(value) == DataVersionNew(value, 0)

get_version(v) == v.version

get_step(v) == v.step

\* DataVersionCmp with the fields compared in the other order.
DataVersionCmpStepFirst(a, b) ==
    IF a.step < b.step THEN "Less"
    ELSE IF a.step > b.step THEN "Greater"
    ELSE IF a.version < b.version THEN "Less"
    ELSE IF a.version > b.version THEN "Greater"
    ELSE "Equal"

\* #[derive(Ord, PartialOrd)] on struct { version, step }: the fields are
\* compared in declaration order.
DataVersionCmp(a, b) ==
    IF a.version < b.version THEN "Less"
    ELSE IF a.version > b.version THEN "Greater"
    ELSE IF a.step < b.step THEN "Less"
    ELSE IF a.step > b.step THEN "Greater"
    ELSE "Equal"

\* #[derive(Eq, PartialEq)]: every field is compared.
DataVersionEq(a, b) == a.version = b.version /\ a.step = b.step

VersionLe(a, b) == DataVersionCmp(a, b) # "Greater"

VersionGt(a, b) == DataVersionCmp(a, b) = "Greater"

\* The versions callers pass: bare major versions, lifted by From<u32>.
Versions == {DataVersionFrom(m) : m \in 0..MaxVersion}

\* The versions DataVersion::new builds
AllVersions == {DataVersionNew(m, s) : m \in 0..MaxVersion, s \in 0..MaxStep}

----------------------------------------------------------------------------
(* Documents *)

\* Value::String and Value::Int; a value is tagged by its field name.
StringValue(s) == [String |-> s]

IntValue(i) == [Int |-> i]

IsString(v) == "String" \in DOMAIN v

\* The discriminator values walkers are registered for.
Ids == {"foo", "bar"}

\* The compound with no field.
EmptyCompound == <<>>

\* Compounds handed to convert: without "id", with a string "id", with an "id"
\* that is not a string.
Compounds ==
    {EmptyCompound, [k \in {"id"} |-> IntValue(42)]}
        \cup {[k \in {"id"} |-> StringValue(s)] : s \in Ids}

\* Compound::get
CompoundGet(data, key) ==
    IF key \in DOMAIN data THEN [some |-> TRUE, value |-> data[key]]
    ELSE [some |-> FALSE]

----------------------------------------------------------------------------
(* The variants *)

Map == "MapDataType"
Object == "ObjectDataType"
Dynamic == "DynamicDataType"
Id == "IdDataType"

Variants == {Map, Object, Dynamic, Id}

\* The documents a variant's convert is given.  Only IdDataType reads them.
DocsOf(k) ==
    IF k = Id THEN Compounds
    ELSE IF k = Map THEN {[key \in {"id"} |-> StringValue("foo")]}
    ELSE {IntValue(42)}

VARIABLES
    kind,                   \* the variant of the DataType
    structure_converters,   \* Vec of converters, sorted by to_version
    structure_hooks,        \* BTreeMap DataVersion -> Vec of hooks
    structure_walkers,      \* BTreeMap DataVersion -> Vec of walkers
    walkers_by_id,          \* BTreeMap id -> BTreeMap DataVersion -> Vec of walkers
    last,                   \* the operation performed last
    input,                  \* the document handed to the last convert call
    data,                   \* that document when the call returns
    from_version,           \* the arguments of the last convert call
    to_version,
    calls,                  \* the callbacks the last convert call invoked, in order
    nested,                 \* what those callbacks applied in turn, in order
    copied,                 \* history: the walkers from_id had at or below version
                            \* at each copy_walkers call
    args,                   \* the arguments a function is applied to
    result,                 \* what it returns
    threads,                \* the convert call each thread is making
    readers                 \* the number of read guards held on the RwLock

vars == <<kind, structure_converters, structure_hooks, structure_walkers,
          walkers_by_id, last, input, data, from_version, to_version, calls, nested,
          copied, args, result, threads, readers>>

self ==
    [structure_converters |-> structure_converters,
     structure_hooks |-> structure_hooks,
     structure_walkers |-> structure_walkers,
     walkers_by_id |-> walkers_by_id]

\* The number of registration calls made so far.
SeqSum(f, keys) ==
    LET RECURSIVE Sum(_)
        Sum(S) == IF S = {} THEN 0
                  ELSE LET k == CHOOSE x \in S : TRUE IN Len(f[k]) + Sum(S \ {k})
    IN Sum(keys)

MapSize(m) == SeqSum(m, DOMAIN m)

IdWalkerCount ==
    LET RECURSIVE Sum(_)
        Sum(S) == IF S = {} THEN 0
                  ELSE LET k == CHOOSE x \in S : TRUE
                       IN MapSize(walkers_by_id[k]) + Sum(S \ {k})
    IN Sum(DOMAIN walkers_by_id)

Regs ==
    Len(structure_converters) + MapSize(structure_hooks)
        + MapSize(structure_walkers) + IdWalkerCount

----------------------------------------------------------------------------
(* Registration: convert.rs 323-355, 658-670 *)

\* Ord for a converter: convert.rs 254-258
ConverterCmp(a, b) == DataVersionCmp(a.to_version, b.to_version)

\* slice::binary_search, with 0-based indices.  When several elements are equal
\* to x the standard library may return the index of any of them.
binary_search(s, x) ==
    LET Matches == {i \in 0..(Len(s) - 1) : ConverterCmp(s[i + 1], x) = "Equal"}
    IN  IF Matches # {}
        THEN {[ok |-> TRUE, index |-> i] : i \in Matches}
        ELSE {[ok |-> FALSE,
               index |-> Cardinality({i \in 1..Len(s) : ConverterCmp(s[i], x) = "Less"})]}

\* VecInsert that overwrites the element at index when there is one.
VecInsertOverwrite(s, index, x) ==
    IF index < Len(s) THEN [s EXCEPT ![index + 1] = x] ELSE Append(s, x)

\* Vec::insert, with a 0-based index
VecInsert(s, index, x) ==
    SubSeq(s, 1, index) \o <<x>> \o SubSeq(s, index + 1, Len(s))

\* InsertIndex with the search result ignored: the converter is pushed at the end.
InsertIndexAppend(r) == Len(structure_converters)

\* The index add_structure_converter inserts at: convert.rs 334-337
InsertIndex(r) == r.index

\* EntryPush with BTreeMap::insert(key, vec![value]): the bucket is replaced.
EntryPushReplace(m, key, value) ==
    [k \in DOMAIN m \cup {key} |-> IF k = key THEN <<value>> ELSE m[k]]

\* BTreeMap::entry(key).or_default().push(value)
EntryPush(m, key, value) ==
    [k \in DOMAIN m \cup {key} |->
        IF k = key
        THEN Append(IF key \in DOMAIN m THEN m[key] ELSE <<>>, value)
        ELSE m[k]]

\* The buckets of m under keys, one after the other in key order.
RECURSIVE Accumulated(_, _)
Accumulated(m, keys) ==
    IF keys = {} THEN <<>>
    ELSE LET key == CHOOSE k \in keys : \A j \in keys : VersionLe(j, k)
         IN  Accumulated(m, keys \ {key}) \o m[key]

\* RangeToNextBack that collects every entry of range(..=version).
RangeToNextBackAccumulate(m, version) ==
    LET keys == {k \in DOMAIN m : VersionLe(k, version)}
    IN  IF keys = {} THEN [some |-> FALSE]
        ELSE [some |-> TRUE, key |-> CHOOSE k \in keys : \A j \in keys : VersionLe(j, k),
              value |-> Accumulated(m, keys)]

\* RangeToNextBack with next() for next_back(): the entry with the least key.
RangeToNext(m, version) ==
    LET keys == {k \in DOMAIN m : VersionLe(k, version)}
    IN  IF keys = {} THEN [some |-> FALSE]
        ELSE LET key == CHOOSE k \in keys : \A j \in keys : VersionLe(k, j)
             IN  [some |-> TRUE, key |-> key, value |-> m[key]]

\* BTreeMap::range(..=version).next_back(): the entry with the greatest key
\* that is <= version, if any.
RangeToNextBack(m, version) ==
    LET keys == {k \in DOMAIN m : VersionLe(k, version)}
    IN  IF keys = {} THEN [some |-> FALSE]
        ELSE LET key == CHOOSE k \in keys : \A j \in keys : VersionLe(j, k)
             IN  [some |-> TRUE, key |-> key, value |-> m[key]]

\* The tree is built first and converted with afterwards: registration takes
\* the DataType by &mut, convert by & and leaves no trace in it, so one call on
\* each tree that can be built is observed.
Building == last # "convert" /\ Regs < MaxRegs

\* No convert call has been made yet, and this is no copy_walkers call.
NoCall ==
    /\ input' = EmptyCompound
    /\ data' = EmptyCompound
    /\ from_version' = DataVersionFrom(0)
    /\ to_version' = DataVersionFrom(0)
    /\ calls' = <<>>
    /\ nested' = <<>>
    /\ UNCHANGED <<copied, args, result, threads, readers>>

\* convert.rs 326-339.  A converter is named by its to_version and by its
\* ordinal among the add_structure_converter calls.
add_structure_converter(version, func) ==
    /\ Building
    /\ LET converter == [to_version |-> version, ord |-> Len(structure_converters) + 1,
                         conversion_func |-> func]
       IN  \E r \in binary_search(structure_converters, converter) :
              structure_converters' =
                  VecInsert(structure_converters, InsertIndex(r), converter)
    /\ last' = "add_structure_converter"
    /\ NoCall
    /\ UNCHANGED <<kind, structure_hooks, structure_walkers, walkers_by_id>>

\* convert.rs 347-352 as add_structure_hook.  A hook is named by its bucket and
\* its position in the bucket.
add_structure_hook(version) ==
    /\ Building
    /\ LET n == IF version \in DOMAIN structure_hooks
                THEN Len(structure_hooks[version]) + 1 ELSE 1
       IN  structure_hooks' =
               EntryPush(structure_hooks, version, [version |-> version, n |-> n])
    /\ last' = "add_structure_hook"
    /\ NoCall
    /\ UNCHANGED <<kind, structure_converters, structure_walkers, walkers_by_id>>

\* convert.rs 347-352 as add_structure_walker; ObjectDataType has no walkers.
\* A walker is named by its bucket and its position in it, and carries the
\* function the caller supplied.
add_structure_walker(version, func) ==
    /\ Building
    /\ kind # Object
    /\ LET n == IF version \in DOMAIN structure_walkers
                THEN Len(structure_walkers[version]) + 1 ELSE 1
       IN  structure_walkers' =
               EntryPush(structure_walkers, version,
                         [id |-> "*", version |-> version, n |-> n, func |-> func])
    /\ last' = "add_structure_walker"
    /\ NoCall
    /\ UNCHANGED <<kind, structure_converters, structure_hooks, walkers_by_id>>

\* convert.rs 658-670
add_walker_for_id(version, id, func) ==
    /\ Building
    /\ kind = Id
    /\ LET versions == IF id \in DOMAIN walkers_by_id THEN walkers_by_id[id] ELSE <<>>
           n == IF version \in DOMAIN versions THEN Len(versions[version]) + 1 ELSE 1
           walker == [id |-> id, version |-> version, n |-> n, func |-> func]
       IN  walkers_by_id' =
               [k \in DOMAIN walkers_by_id \cup {id} |->
                   IF k = id THEN EntryPush(versions, version, walker)
                   ELSE walkers_by_id[k]]
    /\ last' = "add_walker_for_id"
    /\ NoCall
    /\ UNCHANGED <<kind, structure_converters, structure_hooks, structure_walkers>>

\* The closure add_converter_for_id wraps around converter_func: convert.rs 649-654
ForId(id_str, converter_func) == [id_str |-> id_str, converter_func |-> converter_func]

\* convert.rs 640-656
add_converter_for_id(id, version, converter_func) ==
    /\ kind = Id
    /\ add_structure_converter(version, ForId(id, converter_func))

\* IdEntryPush that pushes the walker under the id it was registered for too.
IdEntryPushSource(m, id, version, walker) ==
    [k \in DOMAIN m \cup {id} |->
        IF k \in {id, walker.id}
        THEN EntryPush(IF k \in DOMAIN m THEN m[k] ELSE <<>>, version, walker)
        ELSE m[k]]

\* walkers_by_id.entry(id).or_default().entry(version).or_default().push(walker)
IdEntryPush(m, id, version, walker) ==
    [k \in DOMAIN m \cup {id} |->
        IF k = id THEN EntryPush(IF id \in DOMAIN m THEN m[id] ELSE <<>>, version, walker)
        ELSE m[k]]

\* CopyLoop stopping one walker early.
RECURSIVE CopyLoopDropLast(_, _, _, _, _)
CopyLoopDropLast(m, from_walkers, i, to_id, version) ==
    IF i >= Len(from_walkers) THEN m
    ELSE CopyLoopDropLast(IdEntryPush(m, to_id, version, from_walkers[i]),
                          from_walkers, i + 1, to_id, version)

\* convert.rs 682-689: for walker in from_walkers.clone() { .. push(walker) },
\* from position i of the cloned list on
RECURSIVE CopyLoop(_, _, _, _, _)
CopyLoop(m, from_walkers, i, to_id, version) ==
    IF i > Len(from_walkers) THEN m
    ELSE CopyLoop(IdEntryPush(m, to_id, version, from_walkers[i]),
                  from_walkers, i + 1, to_id, version)

\* The history of one copy_walkers call: each walker from_id has in a bucket at
\* or below version, with the key of its bucket and the greatest such key.
Copied(version, from_id, to_id) ==
    IF from_id \in DOMAIN walkers_by_id
    THEN LET from_versions == walkers_by_id[from_id]
         IN  UNION {{[version |-> version, from_id |-> from_id, to_id |-> to_id,
                      bucket |-> k, floor |-> RangeToNextBack(from_versions, version).key,
                      walker |-> from_versions[k][i]] :
                         i \in DOMAIN from_versions[k]} :
                            k \in {j \in DOMAIN from_versions : VersionLe(j, version)}}
    ELSE {}

\* copy_walkers looking up from_id's bucket at exactly version.
copy_walkersExactKey(version, from_id, to_id) ==
    /\ Building
    /\ kind = Id
    /\ walkers_by_id' =
          IF from_id \in DOMAIN walkers_by_id
          THEN IF version \in DOMAIN walkers_by_id[from_id]
               THEN CopyLoop(walkers_by_id, walkers_by_id[from_id][version], 1,
                             to_id, version)
               ELSE walkers_by_id
          ELSE walkers_by_id
    /\ copied' = copied \cup Copied(version, from_id, to_id)
    /\ last' = "copy_walkers"
    /\ input' = EmptyCompound
    /\ data' = EmptyCompound
    /\ from_version' = DataVersionFrom(0)
    /\ to_version' = DataVersionFrom(0)
    /\ calls' = <<>>
    /\ nested' = <<>>
    /\ UNCHANGED <<kind, structure_converters, structure_hooks, structure_walkers,
                   args, result, threads, readers>>

\* convert.rs 672-692.  The copied walkers are the handles of from_id's bucket.
copy_walkers(version, from_id, to_id) ==
    /\ Building
    /\ kind = Id
    /\ walkers_by_id' =
          IF from_id \in DOMAIN walkers_by_id
          THEN LET from_walkers == RangeToNextBack(walkers_by_id[from_id], version)
               IN  IF from_walkers.some
                   THEN CopyLoop(walkers_by_id, from_walkers.value, 1, to_id, version)
                   ELSE walkers_by_id
          ELSE walkers_by_id
    /\ copied' = copied \cup Copied(version, from_id, to_id)
    /\ last' = "copy_walkers"
    /\ input' = EmptyCompound
    /\ data' = EmptyCompound
    /\ from_version' = DataVersionFrom(0)
    /\ to_version' = DataVersionFrom(0)
    /\ calls' = <<>>
    /\ nested' = <<>>
    /\ UNCHANGED <<kind, structure_converters, structure_hooks, structure_walkers,
                   args, result, threads, readers>>

----------------------------------------------------------------------------
(* Values, and the callbacks callers register *)

\* Value::Compound
CompoundValue(c) == [Compound |-> c]

IsInt(v) == "Int" \in DOMAIN v

IsCompound(v) == "Compound" \in DOMAIN v

\* CompoundInsert that keeps the value of a key that is present.
CompoundInsertIfAbsent(doc, key, value) ==
    [k \in DOMAIN doc \cup {key} |-> IF k \in DOMAIN doc THEN doc[k] ELSE value]

\* Compound::insert
CompoundInsert(doc, key, value) ==
    [k \in DOMAIN doc \cup {key} |-> IF k = key THEN value ELSE doc[k]]

\* CompoundRemove leaving the key in the compound.
CompoundRemoveKeep(doc, key) ==
    IF key \in DOMAIN doc
    THEN [some |-> TRUE, value |-> doc[key], map |-> doc]
    ELSE [some |-> FALSE, map |-> doc]

\* Compound::remove: the compound without the key, and the value it held
CompoundRemove(doc, key) ==
    IF key \in DOMAIN doc
    THEN [some |-> TRUE, value |-> doc[key],
          map |-> [k \in DOMAIN doc \ {key} |-> doc[k]]]
    ELSE [some |-> FALSE, map |-> doc]

\* The variant of a Value
TagOf(v) == CHOOSE t \in DOMAIN v : TRUE

\* Value::List.  A List is an enum of typed vectors (lib.rs 31-50): End, or
\* one vector whose elements all have the variant the list is tagged with.
ListValue(tag, elems) == [List |-> [tag |-> tag, elems |-> elems]]

IsList(v) == "List" \in DOMAIN v

\* List::new: the list End
ListNew == [tag |-> "End", elems |-> <<>>]

\* List::try_push: End takes the variant of the value; a typed vector takes
\* a value of its variant and refuses any other, which is then dropped.
try_push(list, value) ==
    IF list.tag = "End"
    THEN [list |-> [tag |-> TagOf(value), elems |-> <<value>>], ok |-> TRUE]
    ELSE IF list.tag = TagOf(value)
    THEN [list |-> [tag |-> list.tag, elems |-> Append(list.elems, value)], ok |-> TRUE]
    ELSE [list |-> list, ok |-> FALSE]

\* One decimal digit as a string
Digit(d) ==
    CASE d = 0 -> "0" [] d = 1 -> "1" [] d = 2 -> "2" [] d = 3 -> "3" [] d = 4 -> "4"
      [] d = 5 -> "5" [] d = 6 -> "6" [] d = 7 -> "7" [] d = 8 -> "8" [] d = 9 -> "9"

\* The decimal digits of a natural number, most significant first
RECURSIVE Digits(_)
Digits(n) == IF n < 10 THEN Digit(n) ELSE Digits(n \div 10) \o Digit(n % 10)

\* i32::to_string
to_string(i) == IF i < 0 THEN "-" \o Digits(0 - i) ELSE Digits(i)

\* A callback whose effect on the document is not observed: it leaves it as is.
Opaque == [name |-> "opaque"]

\* The converter function of simple_converted_type: lib.rs 143-147
Stringify == [name |-> "stringify"]

\* The converter function of the "Inner" ObjectDataType: lib.rs 118-122
Set69 == [name |-> "set_69"]

\* A converter function that renames the discriminator "foo" to "bar".
Retag == [name |-> "retag"]

\* A converter function that adds one to the integer field "test".
Increment == [name |-> "increment"]

\* A converter function of a DynamicDataType that turns an odd integer into
\* the string of its decimal digits.
StringifyOdd == [name |-> "stringify_odd"]

\* MapDataConverterFunc::convert, ValueDataConverterFunc::convert and
\* DynamicDataConverterFunc::convert of the functions above
ConverterFunc(func, doc, from, to) ==
    CASE func.name = "stringify" ->
            LET test == CompoundGet(doc, "test")
            IN  IF test.some /\ IsInt(test.value)
                THEN CompoundInsert(doc, "test", StringValue(to_string(test.value.Int)))
                ELSE doc
      [] func.name = "set_69" -> IF IsInt(doc) THEN IntValue(69) ELSE doc
      [] func.name = "stringify_odd" ->
            IF IsInt(doc) /\ doc.Int % 2 = 1 THEN StringValue(to_string(doc.Int)) ELSE doc
      [] func.name = "increment" ->
            LET test == CompoundGet(doc, "test")
            IN  IF test.some /\ IsInt(test.value)
                THEN CompoundInsert(doc, "test", IntValue(test.value.Int + 1))
                ELSE doc
      [] func.name = "retag" ->
            LET id == CompoundGet(doc, "id")
            IN  IF id.some /\ IsString(id.value) /\ id.value = StringValue("foo")
                THEN CompoundInsert(doc, "id", StringValue("bar"))
                ELSE doc
      [] OTHER -> doc

\* lib.rs 139-150
simple_converted_type ==
    [name |-> "Test", kind |-> "MapDataType",
     structure_converters |->
         <<[to_version |-> DataVersionFrom(1), ord |-> 1, conversion_func |-> Stringify]>>,
     structure_hooks |-> <<>>, structure_walkers |-> <<>>, walkers_by_id |-> <<>>]

\* lib.rs 115-123
inner_type ==
    [name |-> "Inner", kind |-> "ObjectDataType",
     structure_converters |->
         <<[to_version |-> DataVersionFrom(1), ord |-> 1, conversion_func |-> Set69]>>,
     structure_hooks |-> <<>>, structure_walkers |-> <<>>, walkers_by_id |-> <<>>]

\* A MapDataType like simple_converted_type that also has a hook and a walker.
hooked_type ==
    [name |-> "Hooked", kind |-> "MapDataType",
     structure_converters |->
         <<[to_version |-> DataVersionFrom(1), ord |-> 1, conversion_func |-> Stringify]>>,
     structure_hooks |->
         [v \in {DataVersionFrom(1)} |-> <<[version |-> DataVersionFrom(1), n |-> 1]>>],
     structure_walkers |->
         [v \in {DataVersionFrom(0)} |->
             <<[id |-> "*", version |-> DataVersionFrom(0), n |-> 1, func |-> Opaque]>>],
     walkers_by_id |-> <<>>]

\* A DynamicDataType with a hook and a converter that changes the variant of
\* some values.
dynamic_type ==
    [name |-> "Dyn", kind |-> "DynamicDataType",
     structure_converters |->
         <<[to_version |-> DataVersionFrom(1), ord |-> 1, conversion_func |-> StringifyOdd]>>,
     structure_hooks |->
         [v \in {DataVersionFrom(0)} |-> <<[version |-> DataVersionFrom(0), n |-> 1]>>],
     structure_walkers |-> <<>>, walkers_by_id |-> <<>>]

\* The walker of simple_walker with hooked_type as the inner type
WalkHooked ==
    [name |-> "convert_map_in_map", data_type |-> hooked_type, path |-> "inner"]

\* The walker of simple_walker: lib.rs 101-103
WalkInner ==
    [name |-> "convert_map_in_map", data_type |-> simple_converted_type, path |-> "inner"]

\* A walker that renames the discriminator "bar" to "foo".
WalkRetag == [name |-> "walk_retag"]

\* The walker of simple_id_walker: lib.rs 128-130
WalkTest ==
    [name |-> "convert_object_in_map", data_type |-> inner_type, path |-> "test"]

\* DataWalkerObjectListPaths::new and the like: a walker that converts the
\* fields under paths with typ
DataWalkerPaths(name, typ, paths) == [name |-> name, typ |-> typ, paths |-> paths]

\* A MapDataType whose walker converts the compound under "inner" with
\* hooked_type.
walking_type ==
    [name |-> "Walking", kind |-> "MapDataType",
     structure_converters |->
         <<[to_version |-> DataVersionFrom(2), ord |-> 1, conversion_func |-> Stringify]>>,
     structure_hooks |->
         [v \in {DataVersionFrom(1)} |-> <<[version |-> DataVersionFrom(1), n |-> 1]>>],
     structure_walkers |->
         [v \in {DataVersionFrom(0)} |->
             <<[id |-> "*", version |-> DataVersionFrom(0), n |-> 1,
                func |-> DataWalkerPaths("DataWalkerMapTypePaths", hooked_type,
                                         <<"inner">>)]>>],
     walkers_by_id |-> <<>>]

----------------------------------------------------------------------------
(* convert: convert.rs 394-445, 477-508, 548-599, 695-762 *)

\* One callback invocation.  site is the position in the converter list of the
\* converter whose loop iteration makes the call, 0 for the code after the loop;
\* data is the document the callback is handed.
Event(op, who, site, doc, from, to) ==
    [op |-> op, who |-> who, site |-> site, data |-> doc,
     from_version |-> from, to_version |-> to]

\* A convert call in progress: the document as changed so far, the callbacks
\* the DataType has invoked, and what those callbacks have applied in turn.
Begin(doc) == [data |-> doc, calls |-> <<>>, nested |-> <<>>]

\* A callback that changes nothing and applies nothing.
Untouched(doc) == [data |-> doc, nested |-> <<>>]

RECURSIVE ConvertOf(_, _, _, _, _)

\* The record of one convert call a walker makes on another DataType
NestedConvert(data_type, path, from, to, before, r) ==
    [call |-> "convert", data_type |-> data_type.name, path |-> path,
     from_version |-> from, to_version |-> to,
     before |-> before, after |-> r.data, calls |-> r.calls, nested |-> r.nested]

\* convert_map_in_map with to_version passed on as from_version too.
convert_map_in_mapFromTo(data_type, doc, path, from, to) ==
    LET map == CompoundGet(doc, path)
    IN  IF map.some /\ IsCompound(map.value)
        THEN LET r == ConvertOf(data_type.kind, data_type, map.value.Compound, to, to)
             IN  [data |-> CompoundInsert(doc, path, CompoundValue(r.data)),
                  nested |-> <<NestedConvert(data_type, path, to, to,
                                             map.value.Compound, r)>>]
        ELSE Untouched(doc)

\* utils.rs 200-212
convert_map_in_map(data_type, doc, path, from, to) ==
    LET map == CompoundGet(doc, path)
        Done(r) ==
            [data |-> CompoundInsert(doc, path, CompoundValue(r.data)),
             nested |-> <<NestedConvert(data_type, path, from, to, map.value.Compound, r)>>]
    IN  IF map.some /\ IsCompound(map.value)
        THEN Done(ConvertOf(data_type.kind, data_type, map.value.Compound, from, to))
        ELSE Untouched(doc)

\* convert_object_in_map with an absent field created and converted.
convert_object_in_mapOrInsert(data_type, doc, path, from, to) ==
    LET obj == IF path \in DOMAIN doc THEN doc[path] ELSE IntValue(0)
        r == ConvertOf(data_type.kind, data_type, obj, from, to)
    IN  [data |-> CompoundInsert(doc, path, r.data),
         nested |-> <<NestedConvert(data_type, path, from, to, obj, r)>>]

\* utils.rs 232-244
convert_object_in_map(data_type, doc, path, from, to) ==
    LET obj == CompoundGet(doc, path)
        Done(r) ==
            [data |-> CompoundInsert(doc, path, r.data),
             nested |-> <<NestedConvert(data_type, path, from, to, obj.value, r)>>]
    IN  IF obj.some
        THEN Done(ConvertOf(data_type.kind, data_type, obj.value, from, to))
        ELSE Untouched(doc)

\* MapListLoop leaving the loop after the first element.
MapListLoopFirstOnly(data_type, path, acc, i, from, to) ==
    IF i > Len(acc.elems) \/ i > 1 THEN acc
    ELSE LET map == acc.elems[i].Compound
             r == ConvertOf(data_type.kind, data_type, map, from, to)
         IN  [elems |-> [acc.elems EXCEPT ![i] = CompoundValue(r.data)],
              nested |-> Append(acc.nested,
                                NestedConvert(data_type, path, from, to, map, r))]

\* for map in list { data_type.convert(map, from, to) }: utils.rs 226-228,
\* from position i on; acc holds the elements so far and the calls made
RECURSIVE MapListLoop(_, _, _, _, _, _)
MapListLoop(data_type, path, acc, i, from, to) ==
    IF i > Len(acc.elems) THEN acc
    ELSE LET map == acc.elems[i].Compound
             Done(r) ==
                 [elems |-> [acc.elems EXCEPT ![i] = CompoundValue(r.data)],
                  nested |-> Append(acc.nested,
                                    NestedConvert(data_type, path, from, to, map, r))]
         IN  MapListLoop(data_type, path,
                         Done(ConvertOf(data_type.kind, data_type, map, from, to)),
                         i + 1, from, to)

\* utils.rs 214-230
convert_map_list_in_map(data_type, doc, path, from, to) ==
    LET list == CompoundGet(doc, path)
    IN  IF list.some /\ IsList(list.value) /\ list.value.List.tag = "Compound"
        THEN LET Done(r) ==
                     [data |-> CompoundInsert(doc, path, ListValue("Compound", r.elems)),
                      nested |-> r.nested]
             IN  Done(MapListLoop(data_type, path,
                                        [elems |-> list.value.List.elems, nested |-> <<>>],
                                        1, from, to))
        ELSE Untouched(doc)

\* for mut obj in list.iter_mut() { data_type.convert(&mut obj, from, to) }:
\* utils.rs 269-271, from position i on
RECURSIVE ObjectListLoop(_, _, _, _, _, _)
ObjectListLoop(data_type, path, acc, i, from, to) ==
    IF i > Len(acc.elems) THEN acc
    ELSE LET obj == acc.elems[i]
             Done(r) ==
                 [elems |-> [acc.elems EXCEPT ![i] = r.data],
                  nested |-> Append(acc.nested,
                                    NestedConvert(data_type, path, from, to, obj, r))]
         IN  ObjectListLoop(data_type, path,
                            Done(ConvertOf(data_type.kind, data_type, obj, from, to)),
                            i + 1, from, to)

\* utils.rs 259-273
convert_object_list_in_map(data_type, doc, path, from, to) ==
    LET list == CompoundGet(doc, path)
    IN  IF list.some /\ IsList(list.value)
        THEN LET Done(r) ==
                     [data |-> CompoundInsert(doc, path,
                                              ListValue(list.value.List.tag, r.elems)),
                      nested |-> r.nested]
             IN  Done(ObjectListLoop(data_type, path,
                                           [elems |-> list.value.List.elems, nested |-> <<>>],
                                           1, from, to))
        ELSE Untouched(doc)

\* utils.rs 275-287
convert_dynamic_in_map(data_type, doc, path, from, to) ==
    LET value == CompoundGet(doc, path)
        Done(r) ==
            [data |-> CompoundInsert(doc, path, r.data),
             nested |-> <<NestedConvert(data_type, path, from, to, value.value, r)>>]
    IN  IF value.some
        THEN Done(ConvertOf(data_type.kind, data_type, value.value, from, to))
        ELSE Untouched(doc)

\* utils.rs 306-310: for element in in_list.drain(..) { convert; try_push },
\* from position i on
RECURSIVE ConvertListLoop(_, _, _, _, _, _, _)
ConvertListLoop(data_type, path, in_list, acc, i, from, to) ==
    IF i > Len(in_list) THEN acc
    ELSE LET element == in_list[i]
             Pushed(r, pushed) ==
                 [result |-> pushed.list,
                  all_success |-> acc.all_success /\ pushed.ok,
                  nested |-> Append(acc.nested,
                                    NestedConvert(data_type, path, from, to, element, r))]
             Done(r) == Pushed(r, try_push(acc.result, r.data))
         IN  ConvertListLoop(data_type, path, in_list,
                             Done(ConvertOf(data_type.kind, data_type, element,
                                                  from, to)),
                             i + 1, from, to)

\* utils.rs 298-315
convert_list_inner(data_type, path, in_list, from, to) ==
    LET Done(r) ==
            [result |-> r.result, nested |-> r.nested,
             warn |-> IF r.all_success THEN <<>>
                      ELSE <<"Result of list conversion was not homogenous">>]
    IN  Done(ConvertListLoop(data_type, path, in_list,
                                   [result |-> ListNew, all_success |-> TRUE,
                                    nested |-> <<>>],
                                   1, from, to))

\* utils.rs 289-359.  warn holds the warnings the call logs.
convert_dynamic_list_in_map(data_type, doc, path, from, to) ==
    LET list == CompoundGet(doc, path)
    IN  IF list.some /\ IsList(list.value)
        THEN IF list.value.List.tag = "End"
             THEN [data |-> CompoundInsert(doc, path, [List |-> ListNew]),
                   nested |-> <<>>, warn |-> <<>>]
             ELSE LET Done(r) ==
                          [data |-> CompoundInsert(doc, path, [List |-> r.result]),
                           nested |-> r.nested, warn |-> r.warn]
                  IN  Done(convert_list_inner(data_type, path,
                                                    list.value.List.elems, from, to))
        ELSE [data |-> doc, nested |-> <<>>, warn |-> <<>>]

\* for obj in data.values_mut() { if let Compound(map) = obj { convert } }:
\* utils.rs 383-387, over the keys not yet visited.  The values are visited in
\* the order of the compound's keys; the visits do not depend on each other.
RECURSIVE ValuesLoop(_, _, _, _, _)
ValuesLoop(data_type, acc, keys, from, to) ==
    IF keys = {} THEN acc
    ELSE LET key == CHOOSE k \in keys : TRUE
             obj == acc.data[key]
         IN  IF IsCompound(obj)
             THEN LET Done(r) ==
                          [data |-> CompoundInsert(acc.data, key, CompoundValue(r.data)),
                           nested |-> Append(acc.nested,
                                             NestedConvert(data_type, key, from, to,
                                                           obj.Compound, r))]
                  IN  ValuesLoop(data_type,
                                 Done(ConvertOf(data_type.kind, data_type,
                                                      obj.Compound, from, to)),
                                 keys \ {key}, from, to)
             ELSE ValuesLoop(data_type, acc, keys \ {key}, from, to)

\* convert_values leaving out one of the values of the map.
convert_valuesButOne(data_type, doc, from, to) ==
    ValuesLoop(data_type, Untouched(doc),
               DOMAIN doc \ {CHOOSE k \in DOMAIN doc \cup {""} :
                                 k \in DOMAIN doc => IsCompound(doc[k])},
               from, to)

\* utils.rs 375-388
convert_values(data_type, doc, from, to) ==
    ValuesLoop(data_type, Untouched(doc), DOMAIN doc, from, to)

\* utils.rs 361-373
convert_values_in_map(data_type, doc, path, from, to) ==
    LET map == CompoundGet(doc, path)
    IN  IF map.some /\ IsCompound(map.value)
        THEN LET Done(r) ==
                     [data |-> CompoundInsert(doc, path, CompoundValue(r.data)),
                      nested |-> r.nested]
             IN  Done(convert_values(data_type, map.value.Compound, from, to))
        ELSE Untouched(doc)

\* The traversal utility of the given name.  The sub-type's convert may invoke
\* a walker that calls a utility in turn.
RECURSIVE Utility(_, _, _, _, _, _)
Utility(name, data_type, doc, path, from, to) ==
    CASE name = "convert_map_in_map" -> convert_map_in_map(data_type, doc, path, from, to)
      [] name = "convert_map_list_in_map" ->
            convert_map_list_in_map(data_type, doc, path, from, to)
      [] name = "convert_object_in_map" ->
            convert_object_in_map(data_type, doc, path, from, to)
      [] name = "convert_object_list_in_map" ->
            convert_object_list_in_map(data_type, doc, path, from, to)
      [] name = "convert_dynamic_in_map" ->
            convert_dynamic_in_map(data_type, doc, path, from, to)
      [] name = "convert_dynamic_list_in_map" ->
            convert_dynamic_list_in_map(data_type, doc, path, from, to)
      [] name = "convert_values_in_map" ->
            convert_values_in_map(data_type, doc, path, from, to)

\* The utility the walk of a DataWalker*Paths walker calls for each path
PathsUtility(name) ==
    CASE name = "DataWalkerObjectListPaths" -> "convert_object_list_in_map"
      [] name = "DataWalkerMapListPaths" -> "convert_map_list_in_map"
      [] name = "DataWalkerDynamicListPaths" -> "convert_dynamic_list_in_map"
      [] name = "DataWalkerObjectTypePaths" -> "convert_object_in_map"
      [] name = "DataWalkerMapTypePaths" -> "convert_map_in_map"
      [] name = "DataWalkerDynamicTypePaths" -> "convert_dynamic_in_map"

\* A walk in progress acc after a utility call that had the effect r
PathWalked(acc, r) == [nested |-> acc.nested \o r.nested, data |-> r.data]

\* for path in &self.paths { convert_.._in_map(&self.typ, data, path,
\* from_version, to_version) }, from position i on
RECURSIVE PathsLoop(_, _, _, _, _)
PathsLoop(func, acc, i, from, to) ==
    IF i > Len(func.paths) THEN acc
    ELSE PathsLoop(func,
                   PathWalked(acc, Utility(PathsUtility(func.name), func.typ, acc.data,
                                           func.paths[i], from, to)),
                   i + 1, from, to)

\* MapDataWalker::walk of the walkers callers register
WalkerEffect(func, doc, from, to) ==
    CASE "paths" \in DOMAIN func -> PathsLoop(func, Untouched(doc), 1, from, to)
      [] func.name = "convert_map_in_map" ->
            convert_map_in_map(func.data_type, doc, func.path, from, to)
      [] func.name = "convert_object_in_map" ->
            convert_object_in_map(func.data_type, doc, func.path, from, to)
      [] func.name = "walk_retag" ->
            IF "id" \in DOMAIN doc /\ doc["id"] = StringValue("bar")
            THEN Untouched(CompoundInsert(doc, "id", StringValue("foo")))
            ELSE Untouched(doc)
      [] OTHER -> Untouched(doc)

\* ConverterEffect without the test of the document's "id".
ConverterEffectUnguarded(converter, doc, from, to) ==
    LET func == converter.conversion_func
    IN  IF "id_str" \in DOMAIN func
        THEN [data |-> ConverterFunc(func.converter_func, doc, from, to),
              nested |-> <<[call |-> "converter_func", who |-> converter,
                            from_version |-> from, to_version |-> to]>>]
        ELSE [data |-> ConverterFunc(func, doc, from, to), nested |-> <<>>]

\* The call converter.convert(doc, from, to): convert.rs 414 and, for a
\* converter registered by add_converter_for_id, the closure of 649-654
ConverterEffect(converter, doc, from, to) ==
    LET func == converter.conversion_func
    IN  IF "id_str" \in DOMAIN func
        THEN LET id == CompoundGet(doc, "id")
             IN  IF id.some /\ IsString(id.value) /\ id.value = StringValue(func.id_str)
                 THEN [data |-> ConverterFunc(func.converter_func, doc, from, to),
                       nested |-> <<[call |-> "converter_func", who |-> converter,
                                     from_version |-> from, to_version |-> to]>>]
                 ELSE Untouched(doc)
        ELSE [data |-> ConverterFunc(func, doc, from, to), nested |-> <<>>]

\* Invoke with the callback working on a copy of the document.
InvokeOnCopy(st, op, who, site, from, to) ==
    [data |-> st.data,
     calls |-> Append(st.calls, Event(op, who, site, st.data, from, to)),
     nested |-> st.nested]

\* What the callback does to the document it is handed.  Hooks are opaque.
Callback(op, who, doc, from, to) ==
    CASE op = "convert" -> ConverterEffect(who, doc, from, to)
      [] op = "walk" -> WalkerEffect(who.func, doc, from, to)
      [] OTHER -> Untouched(doc)

\* The call in progress st after the invocation e that had the effect r
Invoked(st, e, r) ==
    [calls |-> Append(st.calls, e), data |-> r.data, nested |-> st.nested \o r.nested]

\* One callback is invoked on the document.  A walker may call convert, which
\* invokes callbacks in turn.
RECURSIVE Invoke(_, _, _, _, _, _)
Invoke(st, op, who, site, from, to) ==
    IF op \in {"pre_hook", "convert", "walk", "post_hook"}
    THEN Invoked(st, Event(op, who, site, st.data, from, to),
                 Callback(op, who, st.data, from, to))
    ELSE st

\* for x in list { x.op(doc, from, to) }, from position i on
RECURSIVE InvokeAll(_, _, _, _, _, _, _)
InvokeAll(st, list, i, op, site, from, to) ==
    IF i > Len(list) THEN st
    ELSE InvokeAll(Invoke(st, op, list[i], site, from, to), list, i + 1, op, site, from, to)

\* Iterator::rev
Rev(list) == [i \in 1..Len(list) |-> list[Len(list) + 1 - i]]

\* if let Some((_, list)) = entry { for x in list { x.op(doc, from, to) } }
ForEach(st, entry, op, site, from, to) ==
    IF entry.some THEN InvokeAll(st, entry.value, 1, op, site, from, to) ELSE st

\* if let Some((_, list)) = entry { for x in list.iter().rev() { ... } }
ForEachRev(st, entry, op, site, from, to) ==
    IF entry.some THEN InvokeAll(st, Rev(entry.value), 1, op, site, from, to) ELSE st

(* MapDataType *)

\* MapStep handing the converter and its hooks the converter's to_version.
MapStepAdvance(dt, st, i, from, to) ==
    LET converter == dt.structure_converters[i]
        hooks == RangeToNextBack(dt.structure_hooks, converter.to_version)
        hooks2 == RangeToNextBack(dt.structure_hooks, to)
        pre == ForEach(st, hooks, "pre_hook", i, from, converter.to_version)
        done == Invoke(pre, "convert", converter, i, from, converter.to_version)
    IN  ForEachRev(done, hooks2, "post_hook", i, from, converter.to_version)

\* convert.rs 404-422: one applied converter and its hooks
MapStep(dt, st, i, from, to) ==
    ForEachRev(
        Invoke(
            ForEach(st,
                    RangeToNextBack(dt.structure_hooks,
                                    dt.structure_converters[i].to_version),
                    "pre_hook", i, from, to),
            "convert", dt.structure_converters[i], i, from, to),
        RangeToNextBack(dt.structure_hooks, to), "post_hook", i, from, to)

\* MapLoop with < for <= in the test against from_version.
RECURSIVE MapLoopOffByOne(_, _, _, _, _)
MapLoopOffByOne(dt, st, i, from, to) ==
    IF i > Len(dt.structure_converters) THEN st
    ELSE LET converter == dt.structure_converters[i]
         IN  IF DataVersionCmp(converter.to_version, from) = "Less"
             THEN MapLoopOffByOne(dt, st, i + 1, from, to)
             ELSE IF VersionGt(converter.to_version, to) THEN st
             ELSE MapLoopOffByOne(dt, MapStep(dt, st, i, from, to), i + 1, from, to)

\* convert.rs 396-423: the loop over the converter list, from position i on
RECURSIVE MapLoop(_, _, _, _, _)
MapLoop(dt, st, i, from, to) ==
    IF i > Len(dt.structure_converters) THEN st
    ELSE LET converter == dt.structure_converters[i]
         IN  IF VersionLe(converter.to_version, from) THEN MapLoop(dt, st, i + 1, from, to)
             ELSE IF VersionGt(converter.to_version, to) THEN st
             ELSE MapLoop(dt, MapStep(dt, st, i, from, to), i + 1, from, to)

\* MapTrailing with the post hooks looked up again, at from_version.
MapTrailingStalePost(dt, st, from, to) ==
    LET hooks == RangeToNextBack(dt.structure_hooks, to)
        walkers == RangeToNextBack(dt.structure_walkers, to)
        pre == ForEach(st, hooks, "pre_hook", 0, from, to)
        walked == ForEach(pre, walkers, "walk", 0, from, to)
    IN  ForEachRev(walked, RangeToNextBack(dt.structure_hooks, from), "post_hook", 0, from, to)

\* convert.rs 425-443: the pass after the loop
MapTrailing(dt, st, from, to) ==
    ForEachRev(
        ForEach(
            ForEach(st, RangeToNextBack(dt.structure_hooks, to), "pre_hook", 0, from, to),
            RangeToNextBack(dt.structure_walkers, to), "walk", 0, from, to),
        RangeToNextBack(dt.structure_hooks, to), "post_hook", 0, from, to)

\* MapConvert returning early when there is nothing to upgrade.
MapConvertEarlyReturn(dt, doc, from, to) ==
    IF VersionLe(to, from) THEN Begin(doc)
    ELSE MapTrailing(dt, MapLoop(dt, Begin(doc), 1, from, to), from, to)

\* convert.rs 394-445
MapConvert(dt, doc, from, to) ==
    MapTrailing(dt, MapLoop(dt, Begin(doc), 1, from, to), from, to)

(* ObjectDataType *)

\* ObjectStep with the post hooks taken from the bucket of the pre hooks.
ObjectStepSymmetric(dt, st, i, from, to) ==
    LET converter == dt.structure_converters[i]
        hooks == RangeToNextBack(dt.structure_hooks, converter.to_version)
        pre == ForEach(st, hooks, "pre_hook", i, from, to)
        done == Invoke(pre, "convert", converter, i, from, to)
    IN  ForEachRev(done, hooks, "post_hook", i, from, to)

\* convert.rs 487-505
ObjectStep(dt, st, i, from, to) ==
    ForEachRev(
        Invoke(
            ForEach(st,
                    RangeToNextBack(dt.structure_hooks,
                                    dt.structure_converters[i].to_version),
                    "pre_hook", i, from, to),
            "convert", dt.structure_converters[i], i, from, to),
        RangeToNextBack(dt.structure_hooks, to), "post_hook", i, from, to)

\* convert.rs 479-506
RECURSIVE ObjectLoop(_, _, _, _, _)
ObjectLoop(dt, st, i, from, to) ==
    IF i > Len(dt.structure_converters) THEN st
    ELSE LET converter == dt.structure_converters[i]
         IN  IF VersionLe(converter.to_version, from) THEN ObjectLoop(dt, st, i + 1, from, to)
             ELSE IF VersionGt(converter.to_version, to) THEN st
             ELSE ObjectLoop(dt, ObjectStep(dt, st, i, from, to), i + 1, from, to)

\* ObjectConvert followed by the pass MapDataType makes after its loop.
ObjectConvertTrailing(dt, doc, from, to) ==
    MapTrailing(dt, ObjectLoop(dt, Begin(doc), 1, from, to), from, to)

\* convert.rs 477-508: nothing follows the loop
ObjectConvert(dt, doc, from, to) == ObjectLoop(dt, Begin(doc), 1, from, to)

(* DynamicDataType *)

\* convert.rs 558-576
DynamicStep(dt, st, i, from, to) ==
    ForEachRev(
        Invoke(
            ForEach(st,
                    RangeToNextBack(dt.structure_hooks,
                                    dt.structure_converters[i].to_version),
                    "pre_hook", i, from, to),
            "convert", dt.structure_converters[i], i, from, to),
        RangeToNextBack(dt.structure_hooks, to), "post_hook", i, from, to)

\* convert.rs 550-577
RECURSIVE DynamicLoop(_, _, _, _, _)
DynamicLoop(dt, st, i, from, to) ==
    IF i > Len(dt.structure_converters) THEN st
    ELSE LET converter == dt.structure_converters[i]
         IN  IF VersionLe(converter.to_version, from) THEN DynamicLoop(dt, st, i + 1, from, to)
             ELSE IF VersionGt(converter.to_version, to) THEN st
             ELSE DynamicLoop(dt, DynamicStep(dt, st, i, from, to), i + 1, from, to)

\* DynamicTrailing with the walkers run before the pre hooks.
DynamicTrailingWalkFirst(dt, st, from, to) ==
    LET hooks == RangeToNextBack(dt.structure_hooks, to)
        walkers == RangeToNextBack(dt.structure_walkers, to)
        walked == ForEach(st, walkers, "walk", 0, from, to)
        pre == ForEach(walked, hooks, "pre_hook", 0, from, to)
    IN  ForEachRev(pre, hooks, "post_hook", 0, from, to)

\* convert.rs 579-597
DynamicTrailing(dt, st, from, to) ==
    ForEachRev(
        ForEach(
            ForEach(st, RangeToNextBack(dt.structure_hooks, to), "pre_hook", 0, from, to),
            RangeToNextBack(dt.structure_walkers, to), "walk", 0, from, to),
        RangeToNextBack(dt.structure_hooks, to), "post_hook", 0, from, to)

\* convert.rs 548-599
DynamicConvert(dt, doc, from, to) ==
    DynamicTrailing(dt, DynamicLoop(dt, Begin(doc), 1, from, to), from, to)

(* IdDataType *)

\* convert.rs 705-723: the post hooks are iterated without rev()
IdStep(dt, st, i, from, to) ==
    ForEach(
        Invoke(
            ForEach(st,
                    RangeToNextBack(dt.structure_hooks,
                                    dt.structure_converters[i].to_version),
                    "pre_hook", i, from, to),
            "convert", dt.structure_converters[i], i, from, to),
        RangeToNextBack(dt.structure_hooks, to), "post_hook", i, from, to)

\* convert.rs 697-724
RECURSIVE IdLoop(_, _, _, _, _)
IdLoop(dt, st, i, from, to) ==
    IF i > Len(dt.structure_converters) THEN st
    ELSE LET converter == dt.structure_converters[i]
         IN  IF VersionLe(converter.to_version, from) THEN IdLoop(dt, st, i + 1, from, to)
             ELSE IF VersionGt(converter.to_version, to) THEN st
             ELSE IdLoop(dt, IdStep(dt, st, i, from, to), i + 1, from, to)

\* IdDispatch with the last bucket registered for the id, whatever its key.
IdDispatchLastBucket(dt, st, from, to) ==
    LET id == CompoundGet(st.data, "id")
    IN  IF id.some /\ IsString(id.value)
        THEN IF id.value.String \in DOMAIN dt.walkers_by_id
             THEN LET m == dt.walkers_by_id[id.value.String]
                      top == CHOOSE k \in DOMAIN m : \A j \in DOMAIN m : VersionLe(j, k)
                  IN  ForEach(st, [some |-> TRUE, key |-> top, value |-> m[top]],
                              "walk", 0, from, to)
             ELSE st
        ELSE st

\* IdDispatch with the discriminator taken to be "foo", whatever the document holds.
IdDispatchFixedId(dt, st, from, to) ==
    IF "foo" \in DOMAIN dt.walkers_by_id
    THEN ForEach(st, RangeToNextBack(dt.walkers_by_id["foo"], to), "walk", 0, from, to)
    ELSE st

\* IdDispatch with the walkers of every bucket of the id at or below to_version.
IdDispatchCumulative(dt, st, from, to) ==
    LET id == CompoundGet(st.data, "id")
    IN  IF id.some /\ IsString(id.value)
        THEN IF id.value.String \in DOMAIN dt.walkers_by_id
             THEN ForEach(st, RangeToNextBackAccumulate(dt.walkers_by_id[id.value.String], to),
                          "walk", 0, from, to)
             ELSE st
        ELSE st

\* convert.rs 744-752: the walkers registered for the "id" the document has
\* when the generic walkers are done
IdDispatch(dt, st, from, to) ==
    LET id == CompoundGet(st.data, "id")
    IN  IF id.some /\ IsString(id.value)
        THEN IF id.value.String \in DOMAIN dt.walkers_by_id
             THEN ForEach(st, RangeToNextBack(dt.walkers_by_id[id.value.String], to),
                          "walk", 0, from, to)
             ELSE st
        ELSE st

\* IdTrailing with the id walkers dispatched before the generic walkers.
IdTrailingDispatchFirst(dt, st, from, to) ==
    LET hooks == RangeToNextBack(dt.structure_hooks, to)
        walkers == RangeToNextBack(dt.structure_walkers, to)
        pre == ForEachRev(st, hooks, "pre_hook", 0, from, to)
        dispatched == IdDispatch(dt, pre, from, to)
        walked == ForEach(dispatched, walkers, "walk", 0, from, to)
    IN  ForEachRev(walked, hooks, "post_hook", 0, from, to)

\* convert.rs 728-760: the pre hooks are iterated with rev()
IdTrailing(dt, st, from, to) ==
    ForEachRev(
        IdDispatch(
            dt,
            ForEach(
                ForEachRev(st, RangeToNextBack(dt.structure_hooks, to),
                           "pre_hook", 0, from, to),
                RangeToNextBack(dt.structure_walkers, to), "walk", 0, from, to),
            from, to),
        RangeToNextBack(dt.structure_hooks, to), "post_hook", 0, from, to)

\* IdConvert with the id walkers chosen by the "id" the document has when the
\* call begins.
IdConvertEarlyId(dt, doc, from, to) ==
    LET hooks == RangeToNextBack(dt.structure_hooks, to)
        walkers == RangeToNextBack(dt.structure_walkers, to)
        looped == IdLoop(dt, Begin(doc), 1, from, to)
        pre == ForEachRev(looped, hooks, "pre_hook", 0, from, to)
        walked == ForEach(pre, walkers, "walk", 0, from, to)
        id == CompoundGet(doc, "id")
        dispatched ==
            IF id.some /\ IsString(id.value)
            THEN IF id.value.String \in DOMAIN dt.walkers_by_id
                 THEN ForEach(walked, RangeToNextBack(dt.walkers_by_id[id.value.String], to),
                              "walk", 0, from, to)
                 ELSE walked
            ELSE walked
    IN  ForEachRev(dispatched, hooks, "post_hook", 0, from, to)

\* convert.rs 695-762
IdConvert(dt, doc, from, to) ==
    IdTrailing(dt, IdLoop(dt, Begin(doc), 1, from, to), from, to)

\* The convert method of a DataType of variant k
ConvertOf(k, dt, doc, from, to) ==
    CASE k = Map -> MapConvert(dt, doc, from, to)
      [] k = Object -> ObjectConvert(dt, doc, from, to)
      [] k = Dynamic -> DynamicConvert(dt, doc, from, to)
      [] k = Id -> IdConvert(dt, doc, from, to)

\* One convert call on the DataType.  The registries are borrowed immutably;
\* the document is changed in place by the callbacks.
convert(doc, from, to) ==
    /\ last # "convert"
    /\ \E r \in {ConvertOf(kind, self, doc, from, to)} :
           /\ calls' = r.calls
           /\ data' = r.data
           /\ nested' = r.nested
    /\ input' = doc
    /\ from_version' = from
    /\ to_version' = to
    /\ last' = "convert"
    /\ UNCHANGED <<kind, structure_converters, structure_hooks, structure_walkers,
                   walkers_by_id, copied, args, result, threads, readers>>

----------------------------------------------------------------------------
(* The specification *)

\* MapDataType::new, ObjectDataType::new, DynamicDataType::new, IdDataType::new
Init ==
    /\ kind \in Variants
    /\ structure_converters = <<>>
    /\ structure_hooks = <<>>
    /\ structure_walkers = <<>>
    /\ walkers_by_id = <<>>
    /\ last = "new"
    /\ input = EmptyCompound
    /\ data = EmptyCompound
    /\ from_version = DataVersionFrom(0)
    /\ to_version = DataVersionFrom(0)
    /\ calls = <<>>
    /\ nested = <<>>
    /\ copied = {}
    /\ args = <<>>
    /\ result = <<>>
    /\ threads = <<>>
    /\ readers = 0

Next ==
    \/ \E version \in Versions : add_structure_converter(version, Opaque)
    \/ \E version \in Versions : add_structure_hook(version)
    \/ \E version \in Versions : add_structure_walker(version, Opaque)
    \/ \E version \in Versions, id \in Ids : add_walker_for_id(version, id, Opaque)
    \/ \E doc \in DocsOf(kind), from \in Versions, to \in Versions : convert(doc, from, to)

Spec == Init /\ [][Next]_vars

\* The documents of simple_id_walker (lib.rs 113-114), and the same document
\* without "id" and with an "id" that is not a string.
IdDocs ==
    {[k \in {"test"} |-> IntValue(42)]}
        \cup {[k \in {"id", "test"} |-> IF k = "id" THEN v ELSE IntValue(42)] :
                  v \in {StringValue(s) : s \in Ids} \cup {IntValue(42)}}

\* IdDataType::new
InitId == Init /\ kind = Id

\* An IdDataType as in simple_id_walker: its id walkers convert the field "test"
\* with the "Inner" type, and its converters rename the discriminator.
NextDispatch ==
    \/ \E version \in Versions : add_structure_converter(version, Retag)
    \/ \E version \in Versions, id \in Ids : add_walker_for_id(version, id, WalkTest)
    \/ \E doc \in IdDocs, from \in Versions, to \in Versions : convert(doc, from, to)

SpecDispatch == InitId /\ [][NextDispatch]_vars

\* An IdDataType with hooks, with converters registered for an id that turn
\* the field "test" into a string, and with converters that rename the id.
\* It is called to upgrade a document.
NextForId ==
    \/ \E version \in Versions : add_structure_converter(version, Retag)
    \/ \E version \in Versions, id \in Ids : add_converter_for_id(id, version, Stringify)
    \/ \E version \in Versions : add_structure_hook(version)
    \/ \E doc \in IdDocs, from \in Versions, to \in Versions :
          VersionGt(to, from) /\ convert(doc, from, to)

SpecForId == InitId /\ [][NextForId]_vars

\* An IdDataType whose id walkers are registered and copied between ids.
NextCopy ==
    \/ \E version \in Versions, id \in Ids : add_walker_for_id(version, id, Opaque)
    \/ \E version \in Versions, from_id \in Ids, to_id \in Ids :
          copy_walkers(version, from_id, to_id)
    \/ \E doc \in Compounds, from \in Versions, to \in Versions : convert(doc, from, to)

SpecCopy == InitId /\ [][NextCopy]_vars

\* The documents of simple_conversion and simple_walker (lib.rs 89, 96) in one,
\* the same without "inner", and with an "inner" that is not a compound.
NestedDocs ==
    {[k \in {"test"} |-> IntValue(42)]}
        \cup {[k \in {"inner", "test"} |-> IF k = "inner" THEN v ELSE IntValue(42)] :
                  v \in {CompoundValue([k \in {"test"} |-> IntValue(42)]), IntValue(42)}}

\* MapDataType::new
InitMap == Init /\ kind = Map

\* A MapDataType as in simple_conversion and simple_walker: its converters
\* change the field "test", its walkers convert the compound under "inner".
NextNested ==
    \/ \E version \in Versions, func \in {Stringify, Increment} :
          add_structure_converter(version, func)
    \/ \E version \in Versions, func \in {WalkInner, WalkHooked} :
          add_structure_walker(version, func)
    \/ \E doc \in NestedDocs, from \in Versions, to \in Versions : convert(doc, from, to)

SpecNested == InitMap /\ [][NextNested]_vars

\* Three versions built by DataVersion::new; no DataType is involved.
InitVersion ==
    /\ kind = Map
    /\ structure_converters = <<>>
    /\ structure_hooks = <<>>
    /\ structure_walkers = <<>>
    /\ walkers_by_id = <<>>
    /\ last = "new"
    /\ input = EmptyCompound
    /\ data = EmptyCompound
    /\ from_version = DataVersionFrom(0)
    /\ to_version = DataVersionFrom(0)
    /\ calls = <<>>
    /\ nested = <<>>
    /\ copied = {}
    /\ args \in [a : AllVersions, b : AllVersions, c : AllVersions]
    /\ result = <<>>
    /\ threads = <<>>
    /\ readers = 0

\* The versions are compared with each other: derived Ord and PartialEq.
cmp ==
    /\ last = "new"
    /\ result' = [ab |-> DataVersionCmp(args.a, args.b),
                  ba |-> DataVersionCmp(args.b, args.a),
                  bc |-> DataVersionCmp(args.b, args.c),
                  ac |-> DataVersionCmp(args.a, args.c),
                  aa |-> DataVersionCmp(args.a, args.a),
                  eq |-> DataVersionEq(args.a, args.b)]
    /\ last' = "cmp"
    /\ UNCHANGED <<kind, structure_converters, structure_hooks, structure_walkers,
                   walkers_by_id, input, data, from_version, to_version, calls,
                   nested, copied, args, threads, readers>>

\* The major version of the first is lifted by From<u32> and read back.
from_u32 ==
    /\ last = "new"
    /\ LET v == DataVersionFrom(get_version(args.a))
       IN  result' = [value |-> v, version |-> get_version(v), step |-> get_step(v),
                      new |-> DataVersionNew(get_version(args.a), 0)]
    /\ last' = "from"
    /\ UNCHANGED <<kind, structure_converters, structure_hooks, structure_walkers,
                   walkers_by_id, input, data, from_version, to_version, calls,
                   nested, copied, args, threads, readers>>

NextVersion == cmp \/ from_u32

SpecVersion == InitVersion /\ [][NextVersion]_vars

\* The values a field holds when a utility of utils.rs is applied: scalars,
\* compounds, and lists of each variant, empty and not.
UtilValues ==
    {IntValue(42), StringValue("42"),
     CompoundValue([k \in {"test"} |-> IntValue(42)]),
     CompoundValue([k \in {"a", "b"} |->
                       IF k = "a" THEN CompoundValue([j \in {"test"} |-> IntValue(42)])
                       ELSE IntValue(42)]),
     [List |-> ListNew],
     ListValue("Compound", <<>>),
     ListValue("Compound", <<CompoundValue([k \in {"test"} |-> IntValue(42)])>>),
     ListValue("Compound", <<CompoundValue([k \in {"test"} |-> IntValue(42)]),
                             CompoundValue([k \in {"test"} |-> IntValue(69)])>>),
     ListValue("Int", <<>>),
     ListValue("Int", <<IntValue(42)>>),
     ListValue("Int", <<IntValue(42), IntValue(69)>>),
     ListValue("Int", <<IntValue(69), IntValue(42)>>),
     ListValue("Int", <<IntValue(69), IntValue(69)>>),
     ListValue("String", <<StringValue("42")>>)}

\* The documents the utilities are applied to: a field with each of the values
\* beside another field, and the empty compound.
UtilDocs ==
    {EmptyCompound}
        \cup {[k \in {"field", "other"} |-> IF k = "field" THEN v ELSE IntValue(42)] :
                  v \in UtilValues}

\* The paths the utilities are given
Paths == {"field", "missing_path"}

\* A caller applies a traversal utility of utils.rs to a document.
traverse(name, data_type, doc, path, from, to) ==
    /\ last = "new"
    /\ args' = [data_type |-> data_type, doc |-> doc, path |-> path,
                from_version |-> from, to_version |-> to]
    /\ result' = Utility(name, data_type, doc, path, from, to)
    /\ last' = name
    /\ UNCHANGED <<kind, structure_converters, structure_hooks, structure_walkers,
                   walkers_by_id, input, data, from_version, to_version, calls,
                   nested, copied, threads, readers>>

\* The keys of the maps handed to get_mut_multi, and the keys asked for
MultiKeys == {"a", "b", "c"}

\* The maps handed to get_mut_multi: some of the keys, each with a value
MultiMaps ==
    UNION {[S -> {IntValue(42), IntValue(69)}] : S \in SUBSET MultiKeys}

\* The arrays [&str; N] handed to get_mut_multi, N = 0 .. MaxKeys
KeyArrays == UNION {[1..N -> MultiKeys] : N \in 0..MaxKeys}

\* NonUniqueKeys comparing each key with its right neighbour only.
NonUniqueKeysAdjacent(keys) ==
    LET N == Len(keys)
    IN  N > 1 /\ \E i \in 0..(N - 2) : keys[i + 1] = keys[i + 2]

\* utils.rs 421-429: the loops reach non_unique_keys, which panics
NonUniqueKeys(keys) ==
    LET N == Len(keys)
    IN  N > 1 /\ \E i \in 0..(N - 2) : \E j \in (i + 1)..(N - 1) :
                    keys[i + 1] = keys[j + 1]

\* utils.rs 431-436: map.get_mut(key) as a reference to the slot of the key
GetMut(map, key) ==
    IF key \in DOMAIN map THEN [some |-> TRUE, slot |-> key, value |-> map[key]]
    ELSE [some |-> FALSE]

\* utils.rs 411-437
get_mut_multi(map, keys) ==
    /\ last = "new"
    /\ args' = [map |-> map, keys |-> keys]
    /\ result' = IF NonUniqueKeys(keys) THEN [panic |-> TRUE, map |-> map]
                 ELSE [panic |-> FALSE, map |-> map,
                       accessors |-> [i \in 1..Len(keys) |-> GetMut(map, keys[i])]]
    /\ last' = "get_mut_multi"
    /\ UNCHANGED <<kind, structure_converters, structure_hooks, structure_walkers,
                   walkers_by_id, input, data, from_version, to_version, calls,
                   nested, copied, threads, readers>>

\* The keys of tests::rename_key (lib.rs 80-81) and another key
RenameKeys == {"hello", "Hello", "other"}

\* The maps handed to rename_key: some of the keys, each with a value
RenameMaps ==
    UNION {[S -> {StringValue("world"), IntValue(42)}] : S \in SUBSET RenameKeys}

\* utils.rs 390-395
rename_key(map, from, to) ==
    /\ last = "new"
    /\ args' = [map |-> map, from |-> from, to |-> to]
    /\ LET removed == CompoundRemove(map, from)
       IN  result' = IF removed.some
                     THEN [map |-> CompoundInsert(removed.map, to, removed.value)]
                     ELSE [map |-> removed.map]
    /\ last' = "rename_key"
    /\ UNCHANGED <<kind, structure_converters, structure_hooks, structure_walkers,
                   walkers_by_id, input, data, from_version, to_version, calls,
                   nested, copied, threads, readers>>

\* The rules handed to rename_keys: for each key, None or Some(new key)
Renamers ==
    [RenameKeys -> {[some |-> FALSE]} \cup {[some |-> TRUE, value |-> k] : k \in RenameKeys}]

\* The orders in which map.keys() may yield the keys S: the order of the
\* compound's backing map, which the build chooses.
KeyOrders(S) ==
    {s \in [1..Cardinality(S) -> S] : \A k \in S : \E i \in DOMAIN s : s[i] = k}

\* utils.rs 398-401: map.keys().filter_map(|key| renamer(key).map(|new_key|
\* (key.clone(), new_key))).collect(), from position i of the keys on
RECURSIVE Renames(_, _, _)
Renames(keys, renamer, i) ==
    IF i > Len(keys) THEN <<>>
    ELSE IF renamer[keys[i]].some
         THEN <<[from |-> keys[i], to |-> renamer[keys[i]].value]>>
                  \o Renames(keys, renamer, i + 1)
         ELSE Renames(keys, renamer, i + 1)

\* utils.rs 402-405: renames.into_iter().map(|(from, to)| (to,
\* map.remove(&from[..]).unwrap())).collect(), from position i on.  unwrap
\* panics on a key that is absent.
RECURSIVE RemoveAll(_, _, _)
RemoveAll(acc, renames, i) ==
    IF i > Len(renames) \/ acc.panic THEN acc
    ELSE IF renames[i].from \in DOMAIN acc.map
         THEN RemoveAll([map |-> CompoundRemove(acc.map, renames[i].from).map,
                         renamed |-> Append(acc.renamed,
                                            [key |-> renames[i].to,
                                             value |-> acc.map[renames[i].from]]),
                         panic |-> FALSE],
                        renames, i + 1)
         ELSE [map |-> acc.map, renamed |-> acc.renamed, panic |-> TRUE]

\* utils.rs 406-408: for (key, value) in renamed { map.insert(key, value) },
\* from position i on
RECURSIVE InsertAll(_, _, _)
InsertAll(map, renamed, i) ==
    IF i > Len(renamed) THEN map
    ELSE InsertAll(CompoundInsert(map, renamed[i].key, renamed[i].value), renamed, i + 1)

\* RenameKeysOf renaming one key after the other: each is removed and
\* inserted under its new name before the next is removed.
RECURSIVE OneByOne(_, _, _)
OneByOne(acc, renames, i) ==
    IF i > Len(renames) \/ acc.panic THEN acc
    ELSE IF renames[i].from \in DOMAIN acc.map
         THEN OneByOne([map |-> CompoundInsert(CompoundRemove(acc.map, renames[i].from).map,
                                               renames[i].to, acc.map[renames[i].from]),
                        panic |-> FALSE],
                       renames, i + 1)
         ELSE [map |-> acc.map, panic |-> TRUE]

RenameKeysOfOneByOne(map, renamer, keys) ==
    OneByOne([map |-> map, panic |-> FALSE], Renames(keys, renamer, 1), 1)

\* utils.rs 397-409, with the keys in the order map.keys() yields them
RenameKeysOf(map, renamer, keys) ==
    LET removed == RemoveAll([map |-> map, renamed |-> <<>>, panic |-> FALSE],
                             Renames(keys, renamer, 1), 1)
    IN  IF removed.panic THEN [map |-> removed.map, panic |-> TRUE]
        ELSE [map |-> InsertAll(removed.map, removed.renamed, 1), panic |-> FALSE]

\* A caller applies rename_keys to a map.
rename_keys(map, renamer, keys) ==
    /\ last = "new"
    /\ args' = [map |-> map, renamer |-> renamer, keys |-> keys]
    /\ result' = RenameKeysOf(map, renamer, keys)
    /\ last' = "rename_keys"
    /\ UNCHANGED <<kind, structure_converters, structure_hooks, structure_walkers,
                   walkers_by_id, input, data, from_version, to_version, calls,
                   nested, copied, threads, readers>>

\* The maps handed to convert_values: some of three keys, each with a scalar,
\* a list of compounds or one of two compounds
ValuesDocs ==
    UNION {[S -> {IntValue(42),
                  ListValue("Compound", <<CompoundValue([k \in {"test"} |-> IntValue(42)])>>),
                  CompoundValue([k \in {"test"} |-> IntValue(42)]),
                  CompoundValue([k \in {"test"} |-> IntValue(69)])}] :
               S \in SUBSET {"a", "b", "c"}}

\* A caller applies convert_values of utils.rs to a map.
traverse_values(data_type, doc, from, to) ==
    /\ last = "new"
    /\ args' = [data_type |-> data_type, doc |-> doc,
                from_version |-> from, to_version |-> to]
    /\ result' = convert_values(data_type, doc, from, to)
    /\ last' = "convert_values"
    /\ UNCHANGED <<kind, structure_converters, structure_hooks, structure_walkers,
                   walkers_by_id, input, data, from_version, to_version, calls,
                   nested, copied, threads, readers>>

\* The utilities of utils.rs are applied, each to a document and a data type
\* of the variant it takes.
NextUtils ==
    \/ \E data_type \in {simple_converted_type, hooked_type}, doc \in UtilDocs,
          path \in Paths, from \in Versions, to \in Versions :
          traverse("convert_map_in_map", data_type, doc, path, from, to)
    \/ \E data_type \in {simple_converted_type, hooked_type}, doc \in UtilDocs,
          path \in Paths, from \in Versions, to \in Versions :
          traverse("convert_map_list_in_map", data_type, doc, path, from, to)
    \/ \E doc \in UtilDocs, path \in Paths, from \in Versions, to \in Versions :
          traverse("convert_object_in_map", inner_type, doc, path, from, to)
    \/ \E doc \in UtilDocs, path \in Paths, from \in Versions, to \in Versions :
          traverse("convert_object_list_in_map", inner_type, doc, path, from, to)
    \/ \E doc \in UtilDocs, path \in Paths, from \in Versions, to \in Versions :
          traverse("convert_dynamic_in_map", dynamic_type, doc, path, from, to)
    \/ \E doc \in UtilDocs, path \in Paths, from \in Versions, to \in Versions :
          traverse("convert_dynamic_list_in_map", dynamic_type, doc, path, from, to)
    \/ \E data_type \in {simple_converted_type, hooked_type}, doc \in UtilDocs,
          path \in Paths, from \in Versions, to \in Versions :
          traverse("convert_values_in_map", data_type, doc, path, from, to)
    \/ \E data_type \in {simple_converted_type, hooked_type}, doc \in ValuesDocs,
          from \in Versions, to \in Versions :
          traverse_values(data_type, doc, from, to)
    \/ \E map \in MultiMaps, keys \in KeyArrays : get_mut_multi(map, keys)
    \/ \E map \in RenameMaps, from \in RenameKeys, to \in RenameKeys :
          rename_key(map, from, to)
    \/ \E map \in RenameMaps, renamer \in Renamers :
          \E keys \in KeyOrders(DOMAIN map) : rename_keys(map, renamer, keys)

SpecUtils == InitMap /\ [][NextUtils]_vars

\* A DataType of any variant on which every registration operation it has
\* is called, and convert.
NextRegistry ==
    \/ \E version \in Versions : add_structure_converter(version, Opaque)
    \/ \E version \in Versions, id \in Ids : add_converter_for_id(id, version, Opaque)
    \/ \E version \in Versions : add_structure_hook(version)
    \/ \E version \in Versions : add_structure_walker(version, Opaque)
    \/ \E version \in Versions, id \in Ids : add_walker_for_id(version, id, Opaque)
    \/ \E version \in Versions, from_id \in Ids, to_id \in Ids :
          copy_walkers(version, from_id, to_id)
    \/ \E from \in Versions, to \in Versions :
          VersionGt(to, from) /\
          convert(IF kind \in {Map, Id} THEN [key \in {"id"} |-> StringValue("foo")]
                  ELSE IntValue(42), from, to)

SpecRegistry == Init /\ [][NextRegistry]_vars

\* A DataType whose converters are registered at versions with steps and that
\* is called to upgrade between bare major versions, lifted by From<u32>.
NextSteps ==
    \/ \E version \in AllVersions : add_structure_converter(version, Opaque)
    \/ \E a \in 0..MaxVersion, b \in 0..MaxVersion :
          a < b /\
          convert(IF kind \in {Map, Id} THEN [key \in {"id"} |-> StringValue("foo")]
                  ELSE IntValue(42), DataVersionFrom(a), DataVersionFrom(b))

SpecSteps == Init /\ [][NextSteps]_vars

\* An IdDataType whose converters and generic walkers rename the
\* discriminator, with hooks and with walkers registered for each id; it is
\* called to upgrade a document that has an id.
NextLate ==
    \/ \E version \in Versions : add_structure_converter(version, Retag)
    \/ \E version \in Versions : add_structure_hook(version)
    \/ \E version \in Versions : add_structure_walker(version, WalkRetag)
    \/ \E id \in Ids : add_walker_for_id(DataVersionFrom(0), id, Opaque)
    \/ \E id \in Ids, from \in Versions, to \in Versions :
          VersionGt(to, from) /\
          convert([k \in {"id", "test"} |-> IF k = "id" THEN StringValue(id) ELSE IntValue(42)],
                  from, to)

SpecLate == InitId /\ [][NextLate]_vars

\* A document with a compound that holds a compound, a list of compounds and
\* a list of numbers, and a document with none of them.
WalkerDocs ==
    {[k \in {"test"} |-> IntValue(42)],
     [k \in {"inner", "items", "numbers", "test"} |->
         CASE k = "inner" ->
                  CompoundValue([j \in {"inner", "test"} |->
                      IF j = "inner" THEN CompoundValue([i \in {"test"} |-> IntValue(42)])
                      ELSE IntValue(42)])
           [] k = "items" ->
                  ListValue("Compound", <<CompoundValue([j \in {"test"} |-> IntValue(42)]),
                                          CompoundValue([j \in {"test"} |-> IntValue(42)])>>)
           [] k = "numbers" -> ListValue("Int", <<IntValue(42), IntValue(42)>>)
           [] OTHER -> IntValue(42)]}

\* A MapDataType with converters, hooks and DataWalker*Paths walkers on
\* other types, one of which has such a walker itself.  The walkers are
\* registered at version 0 and so are those of every call.
NextWalkers ==
    \/ \E version \in Versions : add_structure_converter(version, Stringify)
    \/ \E version \in Versions : add_structure_hook(version)
    \/ \E func \in {DataWalkerPaths("DataWalkerMapTypePaths", walking_type,
                                    <<"inner", "missing_path">>),
                    DataWalkerPaths("DataWalkerMapListPaths", hooked_type, <<"items">>),
                    DataWalkerPaths("DataWalkerObjectTypePaths", inner_type, <<"test">>),
                    DataWalkerPaths("DataWalkerObjectListPaths", inner_type,
                                    <<"items", "numbers">>),
                    DataWalkerPaths("DataWalkerDynamicTypePaths", dynamic_type, <<"test">>),
                    DataWalkerPaths("DataWalkerDynamicListPaths", dynamic_type,
                                    <<"numbers">>)} :
          add_structure_walker(DataVersionFrom(0), func)
    \/ \E doc \in WalkerDocs, from \in Versions, to \in Versions : convert(doc, from, to)

SpecWalkers == InitMap /\ [][NextWalkers]_vars

\* The threads of a host application that shares one DataType
Threads == {"t1", "t2"}

\* An IdDataType with two converters, a hook, and a walker registered for
\* "foo" that copy_walkers has shared with "bar".
shared_id_type ==
    [name |-> "Shared", kind |-> "IdDataType",
     structure_converters |->
         <<[to_version |-> DataVersionFrom(1), ord |-> 1, conversion_func |-> Retag],
           [to_version |-> DataVersionFrom(2), ord |-> 2,
            conversion_func |-> ForId("bar", Stringify)]>>,
     structure_hooks |->
         [v \in {DataVersionFrom(1)} |-> <<[version |-> DataVersionFrom(1), n |-> 1]>>],
     structure_walkers |-> <<>>,
     walkers_by_id |->
         [id \in Ids |->
             [v \in {DataVersionFrom(0)} |->
                 <<[id |-> "foo", version |-> DataVersionFrom(0), n |-> 1,
                    func |-> WalkTest]>>]]]

\* The DataTypes the threads share
SharedTypes == {hooked_type, shared_id_type}

\* Registration has completed: the DataType is built and no thread has
\* called convert yet.
InitConcurrent ==
    /\ \E tree \in SharedTypes :
          /\ kind = tree.kind
          /\ structure_converters = tree.structure_converters
          /\ structure_hooks = tree.structure_hooks
          /\ structure_walkers = tree.structure_walkers
          /\ walkers_by_id = tree.walkers_by_id
    /\ last = "new"
    /\ input = EmptyCompound
    /\ data = EmptyCompound
    /\ from_version = DataVersionFrom(0)
    /\ to_version = DataVersionFrom(0)
    /\ calls = <<>>
    /\ nested = <<>>
    /\ copied = {}
    /\ args = <<>>
    /\ result = <<>>
    /\ threads = [t \in Threads |-> [pc |-> "idle"]]
    /\ readers = 0

\* A thread calls convert on its own document, on the DataType itself or on
\* the RwLock that wraps it.
begin(t, doc, from, to, via) ==
    /\ threads[t].pc = "idle"
    /\ threads' = [threads EXCEPT ![t] =
                      [pc |-> IF via = "RwLock" THEN "read" ELSE "loop", via |-> via,
                       doc |-> doc, from_version |-> from, to_version |-> to,
                       i |-> 1, st |-> Begin(doc)]]
    /\ UNCHANGED <<kind, structure_converters, structure_hooks, structure_walkers,
                   walkers_by_id, last, input, data, from_version, to_version, calls,
                   nested, copied, args, result, readers>>

\* convert.rs 284: self.read().unwrap().  No thread holds or awaits the write
\* lock, so the read lock is granted.
read(t) ==
    /\ threads[t].pc = "read"
    /\ readers' = readers + 1
    /\ threads' = [threads EXCEPT ![t].pc = "loop"]
    /\ UNCHANGED <<kind, structure_converters, structure_hooks, structure_walkers,
                   walkers_by_id, last, input, data, from_version, to_version, calls,
                   nested, copied, args, result>>

\* Cursor with one position for all the calls in progress, kept in the DataType.
CursorShared(t) ==
    CHOOSE i \in {threads[u].i : u \in {v \in Threads : threads[v].pc = "loop"}} :
        \A u \in Threads : threads[u].pc = "loop" => threads[u].i <= i

\* convert.rs 396: the position of `for converter in &self.structure_converters`
\* is a local of the call.
Cursor(t) == threads[t].i

\* The body of the converter loop of a DataType of variant k
StepOf(k, dt, st, i, from, to) ==
    CASE k = Map -> MapStep(dt, st, i, from, to)
      [] k = Object -> ObjectStep(dt, st, i, from, to)
      [] k = Dynamic -> DynamicStep(dt, st, i, from, to)
      [] k = Id -> IdStep(dt, st, i, from, to)

\* What follows the converter loop of a DataType of variant k
TrailingOf(k, dt, st, from, to) ==
    CASE k = Map -> MapTrailing(dt, st, from, to)
      [] k = Object -> st
      [] k = Dynamic -> DynamicTrailing(dt, st, from, to)
      [] k = Id -> IdTrailing(dt, st, from, to)

\* convert.rs 396-423: the thread's call after one more iteration of its
\* converter loop
Iterated(t) ==
    LET th == threads[t]
        i == Cursor(t)
    IN  IF i > Len(structure_converters) THEN [th EXCEPT !.pc = "trailing"]
        ELSE IF VersionLe(structure_converters[i].to_version, th.from_version)
        THEN [th EXCEPT !.i = i + 1]
        ELSE IF VersionGt(structure_converters[i].to_version, th.to_version)
        THEN [th EXCEPT !.pc = "trailing"]
        ELSE [th EXCEPT !.i = i + 1,
                        !.st = StepOf(kind, self, th.st, i, th.from_version, th.to_version)]

\* One iteration of the converter loop of the thread's call
iterate(t) ==
    /\ threads[t].pc = "loop"
    /\ \E th \in {Iterated(t)} : threads' = [threads EXCEPT ![t] = th]
    /\ UNCHANGED <<kind, structure_converters, structure_hooks, structure_walkers,
                   walkers_by_id, last, input, data, from_version, to_version, calls,
                   nested, copied, args, result, readers>>

\* convert.rs 425-443: the thread's call after the pass that follows the loop
Trailed(t) ==
    LET th == threads[t]
    IN  [th EXCEPT !.pc = IF th.via = "RwLock" THEN "unlock" ELSE "done",
                   !.st = TrailingOf(kind, self, th.st, th.from_version, th.to_version)]

\* The pass after the loop of the thread's call
trailing(t) ==
    /\ threads[t].pc = "trailing"
    /\ \E th \in {Trailed(t)} : threads' = [threads EXCEPT ![t] = th]
    /\ UNCHANGED <<kind, structure_converters, structure_hooks, structure_walkers,
                   walkers_by_id, last, input, data, from_version, to_version, calls,
                   nested, copied, args, result, readers>>

\* convert.rs 286: the read guard is dropped when convert returns
unlock(t) ==
    /\ threads[t].pc = "unlock"
    /\ readers' = readers - 1
    /\ threads' = [threads EXCEPT ![t].pc = "done"]
    /\ UNCHANGED <<kind, structure_converters, structure_hooks, structure_walkers,
                   walkers_by_id, last, input, data, from_version, to_version, calls,
                   nested, copied, args, result>>

NextConcurrent ==
    \/ \E t \in Threads, doc \in IdDocs, from \in Versions, to \in Versions,
          via \in {"direct", "RwLock"} :
          VersionGt(to, from) /\ begin(t, doc, from, to, via)
    \/ \E t \in Threads : read(t)
    \/ \E t \in Threads : iterate(t)
    \/ \E t \in Threads : trailing(t)
    \/ \E t \in Threads : unlock(t)

SpecConcurrent == InitConcurrent /\ [][NextConcurrent]_vars

\* A MapDataType with two converters, a hook, a walker on walking_type, whose
\* walker converts with hooked_type in turn, and a walker on the elements of
\* two lists.
deep_type ==
    [name |-> "Deep", kind |-> "MapDataType",
     structure_converters |->
         <<[to_version |-> DataVersionFrom(1), ord |-> 1, conversion_func |-> Increment],
           [to_version |-> DataVersionFrom(2), ord |-> 2, conversion_func |-> Stringify]>>,
     structure_hooks |->
         [v \in {DataVersionFrom(1)} |-> <<[version |-> DataVersionFrom(1), n |-> 1]>>],
     structure_walkers |->
         [v \in {DataVersionFrom(0)} |->
             <<[id |-> "*", version |-> DataVersionFrom(0), n |-> 1,
                func |-> DataWalkerPaths("DataWalkerMapTypePaths", walking_type,
                                         <<"inner", "missing_path">>)],
               [id |-> "*", version |-> DataVersionFrom(0), n |-> 2,
                func |-> DataWalkerPaths("DataWalkerMapListPaths", hooked_type,
                                         <<"items">>)],
               [id |-> "*", version |-> DataVersionFrom(0), n |-> 3,
                func |-> DataWalkerPaths("DataWalkerObjectListPaths", inner_type,
                                         <<"numbers", "test">>)]>>],
     walkers_by_id |-> <<>>]

\* Registration has completed: the DataType is one of five finite registries,
\* of each variant and with walkers that convert nested values to three
\* levels, and no convert call has been made.
InitTerminating ==
    /\ \E tree \in {deep_type, walking_type, shared_id_type, dynamic_type, inner_type} :
          /\ kind = tree.kind
          /\ structure_converters = tree.structure_converters
          /\ structure_hooks = tree.structure_hooks
          /\ structure_walkers = tree.structure_walkers
          /\ walkers_by_id = tree.walkers_by_id
    /\ last = "new"
    /\ input = EmptyCompound
    /\ data = EmptyCompound
    /\ from_version = DataVersionFrom(0)
    /\ to_version = DataVersionFrom(0)
    /\ calls = <<>>
    /\ nested = <<>>
    /\ copied = {}
    /\ args = <<>>
    /\ result = <<>>
    /\ threads = [t \in Threads |-> [pc |-> "idle"]]
    /\ readers = 0

\* The stack frame of a convert call on the DataType dt: the call's arguments,
\* the position i in the converter list, the walkers of the pass after the
\* loop with the positions w of the walker, p of its path and e of the list
\* element, and the place slot of the value in the caller's document.
Frame(dt, value, from, to, slot) ==
    [dt |-> dt, st |-> Begin(value), from_version |-> from, to_version |-> to,
     pc |-> "loop", i |-> 1, walkers |-> <<>>, dispatched |-> FALSE,
     w |-> 1, p |-> 1, e |-> 1, slot |-> slot]

\* A caller calls convert on its document: convert.rs 394-395
call_convert(t, doc, from, to) ==
    /\ threads[t].pc = "idle"
    /\ threads' = [threads EXCEPT ![t] =
                      [pc |-> "run", doc |-> doc,
                       stack |-> <<Frame([name |-> "self", kind |-> kind,
                                          structure_converters |-> structure_converters,
                                          structure_hooks |-> structure_hooks,
                                          structure_walkers |-> structure_walkers,
                                          walkers_by_id |-> walkers_by_id],
                                         doc, from, to, [path |-> "", elem |-> 0])>>]]
    /\ UNCHANGED <<kind, structure_converters, structure_hooks, structure_walkers,
                   walkers_by_id, last, input, data, from_version, to_version, calls,
                   nested, copied, args, result, readers>>

\* Looped with the cursor left where it is when a converter is skipped.
LoopedStuck(f) ==
    LET after ==
            IF f.dt.kind = Object THEN [f EXCEPT !.pc = "return"]
            ELSE [f EXCEPT !.pc = "walk",
                           !.st = IF f.dt.kind = Id
                                  THEN ForEachRev(f.st, RangeToNextBack(f.dt.structure_hooks,
                                                                        f.to_version),
                                                  "pre_hook", 0, f.from_version, f.to_version)
                                  ELSE ForEach(f.st, RangeToNextBack(f.dt.structure_hooks,
                                                                     f.to_version),
                                               "pre_hook", 0, f.from_version, f.to_version),
                           !.walkers = LET entry == RangeToNextBack(f.dt.structure_walkers,
                                                                    f.to_version)
                                       IN  IF entry.some THEN entry.value ELSE <<>>]
    IN  IF f.i > Len(f.dt.structure_converters) THEN after
        ELSE IF VersionLe(f.dt.structure_converters[f.i].to_version, f.from_version)
        THEN f
        ELSE IF VersionGt(f.dt.structure_converters[f.i].to_version, f.to_version) THEN after
        ELSE [f EXCEPT !.i = f.i + 1,
                       !.st = StepOf(f.dt.kind, f.dt, f.st, f.i, f.from_version,
                                     f.to_version)]

\* The frame after one more iteration of the converter loop, convert.rs
\* 396-423; when the loop is left, after the pre hooks of the pass that
\* follows it, 425-430, which an ObjectDataType does not have.
Looped(f) ==
    LET after ==
            IF f.dt.kind = Object THEN [f EXCEPT !.pc = "return"]
            ELSE [f EXCEPT !.pc = "walk",
                           !.st = IF f.dt.kind = Id
                                  THEN ForEachRev(f.st, RangeToNextBack(f.dt.structure_hooks,
                                                                        f.to_version),
                                                  "pre_hook", 0, f.from_version, f.to_version)
                                  ELSE ForEach(f.st, RangeToNextBack(f.dt.structure_hooks,
                                                                     f.to_version),
                                               "pre_hook", 0, f.from_version, f.to_version),
                           !.walkers = LET entry == RangeToNextBack(f.dt.structure_walkers,
                                                                    f.to_version)
                                       IN  IF entry.some THEN entry.value ELSE <<>>]
    IN  IF f.i > Len(f.dt.structure_converters) THEN after
        ELSE IF VersionLe(f.dt.structure_converters[f.i].to_version, f.from_version)
        THEN [f EXCEPT !.i = f.i + 1]
        ELSE IF VersionGt(f.dt.structure_converters[f.i].to_version, f.to_version) THEN after
        ELSE [f EXCEPT !.i = f.i + 1,
                       !.st = StepOf(f.dt.kind, f.dt, f.st, f.i, f.from_version,
                                     f.to_version)]

\* One iteration of the converter loop of the innermost call
converter_loop(t) ==
    /\ threads[t].pc = "run"
    /\ LET stack == threads[t].stack
           n == Len(stack)
       IN  /\ stack[n].pc = "loop"
           /\ threads' = [threads EXCEPT ![t].stack[n] = Looped(stack[n])]
    /\ UNCHANGED <<kind, structure_converters, structure_hooks, structure_walkers,
                   walkers_by_id, last, input, data, from_version, to_version, calls,
                   nested, copied, args, result, readers>>

\* The loop over the walkers of the innermost call: the next walker is
\* invoked, convert.rs 432-437; an IdDataType goes on with the walkers of the
\* document's "id", 744-752; then the post hooks run, 439-443.
walker_loop(t) ==
    /\ threads[t].pc = "run"
    /\ LET stack == threads[t].stack
           n == Len(stack)
           f == stack[n]
           id == CompoundGet(f.st.data, "id")
           bucket == IF id.some /\ IsString(id.value)
                        /\ id.value.String \in DOMAIN f.dt.walkers_by_id
                     THEN RangeToNextBack(f.dt.walkers_by_id[id.value.String], f.to_version)
                     ELSE [some |-> FALSE]
           walker == f.walkers[f.w]
       IN  /\ f.pc = "walk"
           /\ threads' =
                  [threads EXCEPT ![t].stack[n] =
                      IF f.w <= Len(f.walkers)
                      THEN [f EXCEPT !.pc = "paths", !.p = 1, !.e = 1,
                                     !.st = [calls |-> Append(f.st.calls,
                                                              Event("walk", walker, 0, f.st.data,
                                                                    f.from_version, f.to_version)),
                                             data |-> IF "paths" \in DOMAIN walker.func
                                                         \/ "path" \in DOMAIN walker.func
                                                      THEN f.st.data
                                                      ELSE WalkerEffect(walker.func, f.st.data,
                                                                        f.from_version,
                                                                        f.to_version).data,
                                             nested |-> f.st.nested]]
                      ELSE IF f.dt.kind = Id /\ ~ f.dispatched
                      THEN [f EXCEPT !.dispatched = TRUE, !.w = 1,
                                     !.walkers = IF bucket.some THEN bucket.value ELSE <<>>]
                      ELSE [f EXCEPT !.pc = "return",
                                     !.st = ForEachRev(f.st,
                                                       RangeToNextBack(f.dt.structure_hooks,
                                                                       f.to_version),
                                                       "post_hook", 0, f.from_version,
                                                       f.to_version)]]
    /\ UNCHANGED <<kind, structure_converters, structure_hooks, structure_walkers,
                   walkers_by_id, last, input, data, from_version, to_version, calls,
                   nested, copied, args, result, readers>>

\* The walk of the walker in progress: for each of its paths the utility
\* finds the value to convert, utils.rs 200-273, and calls the convert of the
\* walker's type on it, a compound, a value or the next element of a list; a
\* path with no such value is passed over.
path_loop(t) ==
    /\ threads[t].pc = "run"
    /\ LET stack == threads[t].stack
           n == Len(stack)
           f == stack[n]
           func == f.walkers[f.w].func
           paths == IF "paths" \in DOMAIN func THEN func.paths
                    ELSE IF "path" \in DOMAIN func THEN <<func.path>> ELSE <<>>
           typ == IF "paths" \in DOMAIN func THEN func.typ ELSE func.data_type
           utility == IF "paths" \in DOMAIN func THEN PathsUtility(func.name) ELSE func.name
           field == CompoundGet(f.st.data, paths[f.p])
           target ==
               CASE ~ field.some -> [some |-> FALSE]
                 [] utility = "convert_map_in_map" /\ IsCompound(field.value) ->
                       [some |-> TRUE, value |-> field.value.Compound, elem |-> 0]
                 [] utility = "convert_object_in_map" ->
                       [some |-> TRUE, value |-> field.value, elem |-> 0]
                 [] utility = "convert_map_list_in_map" /\ IsList(field.value)
                        /\ field.value.List.tag = "Compound"
                        /\ f.e <= Len(field.value.List.elems) ->
                       [some |-> TRUE, value |-> field.value.List.elems[f.e].Compound,
                        elem |-> f.e]
                 [] utility = "convert_object_list_in_map" /\ IsList(field.value)
                        /\ f.e <= Len(field.value.List.elems) ->
                       [some |-> TRUE, value |-> field.value.List.elems[f.e], elem |-> f.e]
                 [] OTHER -> [some |-> FALSE]
       IN  /\ f.pc = "paths"
           /\ threads' =
                  [threads EXCEPT ![t].stack =
                      IF f.p > Len(paths)
                      THEN [stack EXCEPT ![n] = [f EXCEPT !.pc = "walk", !.w = f.w + 1]]
                      ELSE IF target.some
                      THEN Append(stack,
                                  Frame(typ, target.value, f.from_version, f.to_version,
                                        [path |-> paths[f.p], elem |-> target.elem,
                                         compound |-> utility \in {"convert_map_in_map",
                                                                   "convert_map_list_in_map"}]))
                      ELSE [stack EXCEPT ![n] = [f EXCEPT !.p = f.p + 1, !.e = 1]]]
    /\ UNCHANGED <<kind, structure_converters, structure_hooks, structure_walkers,
                   walkers_by_id, last, input, data, from_version, to_version, calls,
                   nested, copied, args, result, readers>>

\* The innermost call returns, convert.rs 445: the value it converted in
\* place is that of the caller's document, and the walk that called it goes
\* on with the next element or the next path; the outermost call returns to
\* the thread.
return_convert(t) ==
    /\ threads[t].pc = "run"
    /\ LET stack == threads[t].stack
           n == Len(stack)
           f == stack[n]
           caller == stack[n - 1]
           value == IF f.slot.compound THEN CompoundValue(f.st.data) ELSE f.st.data
           list == caller.st.data[f.slot.path].List
           stored ==
               IF f.slot.elem = 0 THEN value
               ELSE ListValue(list.tag, [list.elems EXCEPT ![f.slot.elem] = value])
       IN  /\ f.pc = "return"
           /\ threads' =
                  [threads EXCEPT ![t] =
                      IF n = 1
                      THEN [pc |-> "done", doc |-> threads[t].doc, st |-> f.st,
                            from_version |-> f.from_version, to_version |-> f.to_version]
                      ELSE [threads[t] EXCEPT
                               !.stack =
                                   [i \in 1..(n - 1) |->
                                       IF i < n - 1 THEN stack[i]
                                       ELSE [caller EXCEPT
                                                !.st.data = CompoundInsert(caller.st.data,
                                                                           f.slot.path, stored),
                                                !.p = IF f.slot.elem = 0 THEN caller.p + 1
                                                      ELSE caller.p,
                                                !.e = IF f.slot.elem = 0 THEN 1
                                                      ELSE caller.e + 1]]]]
    /\ UNCHANGED <<kind, structure_converters, structure_hooks, structure_walkers,
                   walkers_by_id, last, input, data, from_version, to_version, calls,
                   nested, copied, args, result, readers>>

\* One call of convert, with any versions, taken step by step with the calls
\* nested in it
NextTerminating ==
    \/ \E doc \in (CASE kind = Map -> WalkerDocs
                     [] kind = Id -> IdDocs
                     [] OTHER -> {IntValue(42), StringValue("42")}),
          from \in Versions, to \in Versions :
          call_convert("t1", doc, from, to)
    \/ converter_loop("t1")
    \/ walker_loop("t1")
    \/ path_loop("t1")
    \/ return_convert("t1")

\* The thread that called convert keeps running: nothing in the call waits
\* for another thread.
SpecTerminating ==
    /\ InitTerminating
    /\ [][NextTerminating]_vars
    /\ WF_vars(converter_loop("t1") \/ walker_loop("t1") \/ path_loop("t1")
                  \/ return_convert("t1"))

----------------------------------------------------------------------------
(* Vocabulary of the properties.  It is stated from the documented behaviour *)
(* and does not use the operators that model convert.                        *)

\* A convert call has been made and calls holds what it invoked.
Converted == last = "convert"

Lt(a, b) == a.version < b.version \/ (a.version = b.version /\ a.step < b.step)

Le(a, b) == a = b \/ Lt(a, b)

\* from < to_version <= to
InRange(c) == Lt(from_version, c.to_version) /\ Le(c.to_version, to_version)

Range(s) == {s[i] : i \in DOMAIN s}

Reverse(s) == [i \in 1..Len(s) |-> s[Len(s) + 1 - i]]

Who(s) == [i \in 1..Len(s) |-> s[i].who]

\* The positions in calls of the invocations of one kind
Indices(op) == {i \in DOMAIN calls : calls[i].op = op}

Sites == {calls[i].site : i \in DOMAIN calls}

EventsAt(op, site) == SelectSeq(calls, LAMBDA e : e.op = op /\ e.site = site)

\* s holds exactly the members of bucket, each once
SameMembers(s, bucket) == Len(s) = Len(bucket) /\ Range(s) = Range(bucket)

\* The bucket with the greatest key <= v: no other key lies between it and v.
FloorBucket(m, v) ==
    LET keys == {k \in DOMAIN m : Le(k, v) /\ ~ \E j \in DOMAIN m : Lt(k, j) /\ Le(j, v)}
    IN  IF keys = {} THEN <<>> ELSE m[CHOOSE k \in keys : TRUE]

\* The walkers registered with add_structure_walker that a sequence of calls invokes
GenericWalks(t) == SelectSeq(t, LAMBDA e : e.op = "walk" /\ e.who.id = "*")

OpRank(op) == CASE op = "pre_hook" -> 0 [] op = "walk" -> 1 [] op = "post_hook" -> 2
                [] OTHER -> 3

\* t is one pass at to_version: the pre_hooks of hook bucket floor(to_version),
\* then the walkers of walker bucket floor(to_version) in list order, then the
\* post_hooks of the same hook bucket.
TrailingShape(t) ==
    LET bucket == FloorBucket(structure_hooks, to_version)
    IN  /\ \A i \in DOMAIN t : t[i].op \in {"pre_hook", "walk", "post_hook"}
        /\ \A i, j \in DOMAIN t : OpRank(t[i].op) < OpRank(t[j].op) => i < j
        /\ SameMembers(Who(SelectSeq(t, LAMBDA e : e.op = "pre_hook")), bucket)
        /\ SameMembers(Who(SelectSeq(t, LAMBDA e : e.op = "post_hook")), bucket)
        /\ Who(GenericWalks(t)) = FloorBucket(structure_walkers, to_version)

----------------------------------------------------------------------------
(* Properties *)

\* C1  Interval correctness: a convert call invokes exactly the registered
\* converters with from < to_version <= to, each exactly once, and no other.
C1_IntervalCorrectness ==
    Converted =>
        /\ \A i \in DOMAIN structure_converters :
              Cardinality({j \in Indices("convert") :
                              calls[j].who = structure_converters[i]})
                  = IF InRange(structure_converters[i]) THEN 1 ELSE 0
        /\ \A j \in Indices("convert") : calls[j].who \in Range(structure_converters)

\* A call with a converter at or below from, one in range and one above to.
C1_Witness ==
    /\ Converted
    /\ \E a, b, c \in Range(structure_converters) :
          /\ Le(a.to_version, from_version)
          /\ InRange(b)
          /\ Lt(to_version, c.to_version)
          /\ \E j \in Indices("convert") : calls[j].who = b

\* C2  Ordering: of two invoked converters, the one with the smaller to_version
\* is invoked first, whatever the order of registration.
C2_Ordering ==
    Converted =>
        \A i, j \in Indices("convert") :
            Lt(calls[i].who.to_version, calls[j].who.to_version) => i < j

\* Two converters registered in decreasing order of version are both invoked.
C2_Witness ==
    /\ Converted
    /\ \E i, j \in Indices("convert") :
          /\ Lt(calls[i].who.to_version, calls[j].who.to_version)
          /\ calls[i].who.ord > calls[j].who.ord

\* C3  Stable insertion: of two invoked converters with equal to_version, the
\* one registered first is invoked first.
C3_StableInsertion ==
    Converted =>
        \A i, j \in Indices("convert") :
            (/\ calls[i].who.to_version = calls[j].who.to_version
             /\ calls[i].who.ord < calls[j].who.ord) => i < j

\* C4 as claimed  Hook pairing: at every call site the hooks whose pre_hook is
\* invoked are the hooks whose post_hook is invoked.
C4_HookPairing ==
    Converted =>
        \A s \in Sites :
            Range(Who(EventsAt("pre_hook", s))) = Range(Who(EventsAt("post_hook", s)))

\* A hook bucket has a key k with v < k <= to_version.
HookKeyAbove(v) == \E k \in DOMAIN structure_hooks : Lt(v, k) /\ Le(k, to_version)

\* C4 as amended  Hook pairing: the hooks of the pass after the loop are
\* invoked as a matched pair; the hooks around an applied converter c are a
\* matched pair exactly when no hook bucket has a key k with
\* c.to_version < k <= to_version.
C4_HookPairingAmended ==
    Converted =>
        \A s \in Sites :
            (Range(Who(EventsAt("pre_hook", s))) = Range(Who(EventsAt("post_hook", s))))
                <=> (s = 0 \/ ~ HookKeyAbove(structure_converters[s].to_version))

\* Hooks fire as a matched pair around a converter and around the walkers.
C4_Witness ==
    /\ Converted
    /\ \E s \in Sites : s > 0 /\ EventsAt("pre_hook", s) # <<>>
                         /\ ~ HookKeyAbove(structure_converters[s].to_version)
    /\ EventsAt("pre_hook", 0) # <<>>
    /\ EventsAt("walk", 0) # <<>>

\* C5  Stack discipline: at every call site the pre_hooks of the selected
\* bucket are invoked in list order and the post_hooks in reverse list order.
C5_StackDiscipline ==
    Converted =>
        \A s \in Sites :
            /\ Who(EventsAt("pre_hook", s))
                  = FloorBucket(structure_hooks,
                                IF s = 0 THEN to_version
                                ELSE structure_converters[s].to_version)
            /\ Who(EventsAt("post_hook", s))
                  = Reverse(FloorBucket(structure_hooks, to_version))

\* No walker is registered for the document's "id".
NoWalkerForId ==
    ~ (/\ "id" \in DOMAIN data
       /\ IsString(data["id"])
       /\ data["id"].String \in DOMAIN walkers_by_id)

\* C6  One traversal shape: an IdDataType, called on a document for whose id no
\* walker is registered, and a DynamicDataType invoke the same sequence of
\* callbacks as a MapDataType with the same registrations.
C6_SharedShape ==
    Converted =>
        /\ (kind = Id /\ NoWalkerForId)
              => calls = MapConvert(self, input, from_version, to_version).calls
        /\ kind = Dynamic
              => calls = MapConvert(self, input, from_version, to_version).calls

\* C7  No-op and downgrade ranges: with from >= to a MapDataType, DynamicDataType
\* or IdDataType invokes no converter and no hook around a converter, and makes
\* exactly one pass at version to.
C7_NoOpRange ==
    (Converted /\ kind # Object /\ Le(to_version, from_version)) =>
        /\ \A i \in DOMAIN calls : calls[i].site = 0 /\ calls[i].op # "convert"
        /\ TrailingShape(calls)

\* A downgrade call on a type with a converter, a hook and a walker.
C7_Witness ==
    /\ Converted
    /\ kind # Object
    /\ Lt(to_version, from_version)
    /\ structure_converters # <<>>
    /\ Indices("pre_hook") # {}
    /\ Indices("walk") # {}

\* C8  Trailing pass: every convert call of a MapDataType, DynamicDataType or
\* IdDataType makes exactly one pass at to_version, after the last applied
\* converter and its post_hooks; no walker is invoked before a converter.
C8_TrailingPass ==
    (Converted /\ kind # Object) =>
        /\ \A i, j \in DOMAIN calls : (calls[i].site > 0 /\ calls[j].site = 0) => i < j
        /\ \A i \in DOMAIN calls :
              calls[i].site > 0 => calls[i].op \in {"pre_hook", "convert", "post_hook"}
        /\ TrailingShape(SelectSeq(calls, LAMBDA e : e.site = 0))
        /\ \A i \in Indices("walk"), j \in Indices("convert") : j < i

\* A call that applies a converter and then runs hooks and a walker.
C8_Witness ==
    /\ Converted
    /\ kind # Object
    /\ Indices("convert") # {}
    /\ EventsAt("pre_hook", 0) # <<>>
    /\ EventsAt("walk", 0) # <<>>

\* C9  Asymmetric hook buckets: around an applied converter c the pre_hooks are
\* those of hook bucket floor(c.to_version) and the post_hooks those of hook
\* bucket floor(to_version), the bucket of the pass after the loop.
C9_AsymmetricBuckets ==
    Converted =>
        /\ \A s \in Sites \ {0} :
              /\ SameMembers(Who(EventsAt("pre_hook", s)),
                             FloorBucket(structure_hooks,
                                         structure_converters[s].to_version))
              /\ SameMembers(Who(EventsAt("post_hook", s)),
                             FloorBucket(structure_hooks, to_version))
        /\ \A i \in Indices("post_hook") :
              calls[i].who \in Range(FloorBucket(structure_hooks, to_version))

\* Around one converter the pre_hooks and the post_hooks come from two buckets.
C9_Witness ==
    /\ Converted
    /\ \E s \in Sites \ {0} :
          /\ EventsAt("pre_hook", s) # <<>>
          /\ EventsAt("post_hook", s) # <<>>
          /\ HookKeyAbove(structure_converters[s].to_version)

\* C10  Walkers are not cumulative: a convert call invokes the walkers of the
\* walker bucket with the greatest key <= to_version, in list order, each once,
\* and no walker of any other bucket.
C10_WalkersNotCumulative ==
    Converted =>
        /\ Who(GenericWalks(calls)) = FloorBucket(structure_walkers, to_version)
        /\ \A i \in Indices("walk") :
              calls[i].who.id = "*" =>
                  /\ Le(calls[i].who.version, to_version)
                  /\ ~ \E k \in DOMAIN structure_walkers :
                          Lt(calls[i].who.version, k) /\ Le(k, to_version)

\* Walker buckets below, at and above the selected one, and a walker runs.
C10_Witness ==
    /\ Converted
    /\ Indices("walk") # {}
    /\ \E k1, k2, k3 \in DOMAIN structure_walkers :
          Lt(k1, k2) /\ Le(k2, to_version) /\ Lt(to_version, k3)

\* C11  ObjectDataType has no trailing pass: its convert invokes hooks only
\* immediately around a converter it applies; when no converter is in range it
\* invokes no hook and no other callback and leaves the value as it was, also
\* when hooks are registered at versions <= to_version.
C11_ObjectNoTrailingPass ==
    (Converted /\ kind = Object) =>
        /\ \A i \in DOMAIN calls :
              /\ calls[i].op \in {"pre_hook", "convert", "post_hook"}
              /\ calls[i].site \in DOMAIN structure_converters
              /\ InRange(structure_converters[calls[i].site])
              /\ \E j \in Indices("convert") :
                    /\ calls[j].who = structure_converters[calls[i].site]
                    /\ calls[i].op = "pre_hook" => i < j
                    /\ calls[i].op = "post_hook" => j < i
                    /\ \A k \in DOMAIN calls :
                          ((i <= k /\ k <= j) \/ (j <= k /\ k <= i))
                              => calls[k].site = calls[i].site
        /\ (~ \E c \in Range(structure_converters) : InRange(c))
              => (calls = <<>> /\ nested = <<>> /\ data = input)

\* An ObjectDataType with a hook at or below to_version and a converter, none
\* of whose converters is in range, has been called.
C11_Witness ==
    /\ Converted
    /\ kind = Object
    /\ structure_converters # <<>>
    /\ \E k \in DOMAIN structure_hooks : Le(k, to_version)
    /\ ~ \E c \in Range(structure_converters) : InRange(c)
    /\ calls = <<>>

\* The positions in calls of the invocations of walkers registered for an id
IdWalks == {i \in Indices("walk") : calls[i].who.id # "*"}

\* The document's "id" is the string X.
HasId(doc, X) == "id" \in DOMAIN doc /\ IsString(doc["id"]) /\ doc["id"].String = X

\* v is the greatest key of m that is <= to_version.
FloorKey(m, v) == v \in DOMAIN m /\ Le(v, to_version)
                      /\ ~ \E k \in DOMAIN m : Lt(v, k) /\ Le(k, to_version)

\* C12  Id-dispatch isolation: a walker registered with add_walker_for_id(v, X, w)
\* is invoked only if the document's "id" is the string X when the id walkers
\* are dispatched and v is the greatest key registered for X that is
\* <= to_version; on a document whose id is another string it is not invoked,
\* and where no id walker is invoked the field they convert keeps its value.
\* (After the dispatch only opaque hooks run, so the returned document has the
\* id the dispatch saw.)
C12_IdDispatchIsolation ==
    (Converted /\ kind = Id) =>
        /\ \A i \in IdWalks :
              LET w == calls[i].who
                  first == CHOOSE j \in IdWalks : \A k \in IdWalks : j <= k
              IN  /\ HasId(calls[first].data, w.id)
                  /\ HasId(data, w.id)
                  /\ w.id \in DOMAIN walkers_by_id
                  /\ FloorKey(walkers_by_id[w.id], w.version)
                  /\ w \in Range(walkers_by_id[w.id][w.version])
        /\ \A X \in Ids :
              (\E Y \in Ids \ {X} : HasId(data, Y))
                  => \A i \in IdWalks : calls[i].who.id # X
        /\ IdWalks = {} => data["test"] = input["test"]

\* The second call of simple_id_walker: the document has id "bar", a walker is
\* registered for "foo" at or below to_version, the "Inner" converter is in
\* range, and "test" is still 42.
C12_Witness ==
    /\ Converted
    /\ kind = Id
    /\ HasId(data, "bar")
    /\ "foo" \in DOMAIN walkers_by_id
    /\ \E v \in DOMAIN walkers_by_id["foo"] : Le(v, to_version)
    /\ Lt(from_version, DataVersionFrom(1)) /\ Le(DataVersionFrom(1), to_version)
    /\ IdWalks = {}
    /\ data["test"] = IntValue(42)

\* The invocations of id walkers, in order
IdWalkEvents == SelectSeq(calls, LAMBDA e : e.op = "walk" /\ e.who.id # "*")

\* C13  Id-dispatch ordering: the id walkers an IdDataType invokes are those of
\* bucket floor(to_version) of walkers_by_id[id], in list order; each runs in
\* the trailing pass, after every generic walker and before every post_hook
\* of that pass.
C13_IdDispatchOrdering ==
    (Converted /\ kind = Id) =>
        /\ \A X \in Ids :
              (HasId(data, X) /\ X \in DOMAIN walkers_by_id)
                  => Who(IdWalkEvents) = FloorBucket(walkers_by_id[X], to_version)
        /\ \A i \in IdWalks :
              /\ calls[i].site = 0
              /\ \A j \in DOMAIN calls :
                    /\ (calls[j].op = "walk" /\ calls[j].who.id = "*") => j < i
                    /\ (calls[j].op = "post_hook" /\ calls[j].site = 0) => i < j

\* A call that invokes a generic walker, an id walker and a trailing post_hook.
C13_Witness ==
    /\ Converted
    /\ kind = Id
    /\ IdWalks # {}
    /\ \E j \in DOMAIN calls : calls[j].op = "walk" /\ calls[j].who.id = "*"
    /\ \E j \in DOMAIN calls : calls[j].op = "post_hook" /\ calls[j].site = 0

\* An invocation without the document it was handed
Shape(e) == [op |-> e.op, who |-> e.who, site |-> e.site,
             from_version |-> e.from_version, to_version |-> e.to_version]

Shapes(t) == [i \in 1..Len(t) |-> Shape(t[i])]

\* The document has no "id", or an "id" that is not a string, or an "id" for
\* which no walker is registered at or below to_version.
NoIdBucket(doc) ==
    \/ "id" \notin DOMAIN doc
    \/ ~ IsString(doc["id"])
    \/ doc["id"].String \notin DOMAIN walkers_by_id
    \/ ~ \E k \in DOMAIN walkers_by_id[doc["id"].String] : Le(k, to_version)

\* C14  Absent discriminator: on a document without "id", with an "id" that is
\* not a string, or with an id that has no walker bucket at or below
\* to_version, IdDataType.convert invokes no id walker and completes; it
\* invokes the in-range converters, the hooks and the generic walkers as it
\* does on any other document.
C14_AbsentDiscriminator ==
    (Converted /\ kind = Id /\ NoIdBucket(data)) =>
        /\ IdWalks = {}
        /\ \A c \in Range(structure_converters) :
              Cardinality({j \in Indices("convert") : calls[j].who = c})
                  = IF InRange(c) THEN 1 ELSE 0
        /\ TrailingShape(SelectSeq(calls, LAMBDA e : e.site = 0))
        /\ \A doc \in Compounds :
              Shapes(SelectSeq(IdConvert(self, doc, from_version, to_version).calls,
                               LAMBDA e : ~ (e.op = "walk" /\ e.who.id # "*")))
                  = Shapes(calls)

\* A call on a document with id "foo" whose walkers are all registered above
\* to_version; the call invokes a converter and a generic walker.
C14_Witness ==
    /\ Converted
    /\ kind = Id
    /\ HasId(data, "foo")
    /\ "foo" \in DOMAIN walkers_by_id
    /\ \A k \in DOMAIN walkers_by_id["foo"] : Lt(to_version, k)
    /\ Indices("convert") # {}
    /\ Indices("walk") # {}

\* The converter was registered with add_converter_for_id.
IsForId(c) == "id_str" \in DOMAIN c.conversion_func

\* The document as the callback of invocation i leaves it
After(i) == IF i < Len(calls) THEN calls[i + 1].data ELSE data

\* The converter function is called by the converter of invocation i.
Delegated(i) ==
    \E n \in DOMAIN nested : nested[n].call = "converter_func" /\ nested[n].who = calls[i].who

\* C15  add_converter_for_id(id, version, func) registers an ordinary converter
\* at version in the sorted converter list: it is invoked under the interval
\* rule and in the order of the list, with the hooks of its iteration; when it
\* is invoked it calls func if and only if the document's "id" is then a
\* string equal to id, and otherwise leaves the document as it is.
C15_ConverterForId ==
    /\ \A i, j \in DOMAIN structure_converters :
          i < j => Le(structure_converters[i].to_version, structure_converters[j].to_version)
    /\ (Converted /\ kind = Id) =>
          /\ \A c \in Range(structure_converters) :
                Cardinality({j \in Indices("convert") : calls[j].who = c})
                    = IF InRange(c) THEN 1 ELSE 0
          /\ \A i, j \in Indices("convert") :
                i < j => calls[i].site < calls[j].site
          /\ \A i \in Indices("convert") :
                LET c == calls[i].who
                    before == calls[i].data
                IN  /\ c = structure_converters[calls[i].site]
                    /\ SameMembers(Who(EventsAt("pre_hook", calls[i].site)),
                                   FloorBucket(structure_hooks, c.to_version))
                    /\ SameMembers(Who(EventsAt("post_hook", calls[i].site)),
                                   FloorBucket(structure_hooks, to_version))
                    /\ IsForId(c) =>
                          /\ Delegated(i) <=> HasId(before, c.conversion_func.id_str)
                          /\ Delegated(i) =>
                                After(i) = [before EXCEPT !["test"] = StringValue("42")]
                          /\ ~ Delegated(i) => After(i) = before

\* A converter registered for "bar" is invoked on a document that was handed
\* in with id "foo" and has been renamed by an earlier converter: it calls its
\* function, between a pre_hook and a post_hook.
C15_Witness ==
    /\ Converted
    /\ kind = Id
    /\ HasId(input, "foo")
    /\ \E i \in Indices("convert") :
          /\ IsForId(calls[i].who)
          /\ calls[i].who.conversion_func.id_str = "bar"
          /\ Delegated(i)
          /\ EventsAt("pre_hook", calls[i].site) # <<>>
          /\ EventsAt("post_hook", calls[i].site) # <<>>
    /\ data["test"] = StringValue("42")

\* The bucket of id at key v in registry m, empty when there is none
BucketAt(m, id, v) ==
    IF id \in DOMAIN m THEN (IF v \in DOMAIN m[id] THEN m[id][v] ELSE <<>>) ELSE <<>>

\* The keys of the buckets of id in registry m
KeysOf(m, id) == IF id \in DOMAIN m THEN DOMAIN m[id] ELSE {}

\* What a call copy_walkers(v, f, t) is to do to walkers_by_id
CopyEffect(v, f, t) ==
    IF \E k \in KeysOf(walkers_by_id, f) : Le(k, v)
    THEN /\ DOMAIN walkers_by_id' = DOMAIN walkers_by_id \cup {t}
         /\ \A id \in DOMAIN walkers_by_id \ {t} : walkers_by_id'[id] = walkers_by_id[id]
         /\ DOMAIN walkers_by_id'[t] = KeysOf(walkers_by_id, t) \cup {v}
         /\ \A k \in KeysOf(walkers_by_id, t) \ {v} :
               walkers_by_id'[t][k] = walkers_by_id[t][k]
         /\ walkers_by_id'[t][v]
               = BucketAt(walkers_by_id, t, v) \o FloorBucket(walkers_by_id[f], v)
    ELSE walkers_by_id' = walkers_by_id

\* C16  copy_walkers(version, from_id, to_id): if from_id has a walker bucket
\* with a key <= version, the walkers of its bucket with the greatest such key
\* are appended, in order and as the same handles, to to_id's bucket at key
\* version, which is created if absent, and nothing else in the registries
\* changes; otherwise the call changes nothing.
C16_CopyWalkers ==
    [][\A v \in Versions, f \in Ids, t \in Ids :
          copy_walkers(v, f, t) =>
              /\ CopyEffect(v, f, t)
              /\ UNCHANGED <<kind, structure_converters, structure_hooks,
                             structure_walkers>>]_vars

\* After a copy_walkers call the bucket of "bar" holds a walker it had before
\* and, behind it, a walker of "foo" that was registered at a lower version.
C16_Witness ==
    /\ last = "copy_walkers"
    /\ \E v \in KeysOf(walkers_by_id, "bar") :
          LET bucket == walkers_by_id["bar"][v]
          IN  /\ Len(bucket) = 2
              /\ bucket[1].id = "bar"
              /\ bucket[2].id = "foo"
              /\ Lt(bucket[2].version, v)
              /\ bucket[2] \in Range(BucketAt(walkers_by_id, "foo", bucket[2].version))

\* The walker is invoked by the convert call.
Walked(w) == \E i \in Indices("walk") : calls[i].who = w

\* C17  copy_walkers sharing, as claimed: after copy_walkers(v, "foo", "bar"),
\* where a walker w was registered under "foo" at a version <= v, every convert
\* of a document with id "bar" to a to_version >= v invokes w.
C17_CopySharing ==
    (Converted /\ kind = Id /\ HasId(data, "bar")) =>
        \A c \in copied :
            (c.from_id = "foo" /\ c.to_id = "bar" /\ Le(c.version, to_version))
                => Walked(c.walker)

\* C17  copy_walkers sharing, amended: after copy_walkers(v, "foo", "bar"),
\* where a walker w was in the bucket of "foo" with the greatest key <= v,
\* every convert of a document with id "bar" to a to_version >= v invokes w,
\* unless "bar" has a walker bucket with a key k, v < k <= to_version.
C17_CopySharingAmended ==
    (Converted /\ kind = Id /\ HasId(data, "bar")) =>
        \A c \in copied :
            (/\ c.from_id = "foo" /\ c.to_id = "bar" /\ Le(c.version, to_version)
             /\ c.bucket = c.floor
             /\ ~ \E k \in KeysOf(walkers_by_id, "bar") :
                     Lt(c.version, k) /\ Le(k, to_version))
                => Walked(c.walker)

\* A walker registered under "foo" below v was copied to "bar" at v, and a
\* document with id "bar" is converted to a version above v: the walker runs.
C17_Witness ==
    /\ Converted
    /\ kind = Id
    /\ HasId(data, "bar")
    /\ \E c \in copied :
          /\ c.from_id = "foo" /\ c.to_id = "bar"
          /\ c.bucket = c.floor
          /\ Lt(c.bucket, c.version)
          /\ Lt(c.version, to_version)
          /\ c.walker.id = "foo"
          /\ Walked(c.walker)

\* C18  DataVersion is totally ordered lexicographically: (m1, s1) < (m2, s2)
\* iff m1 < m2 or (m1 = m2 and s1 < s2); the order is total, antisymmetric and
\* transitive; equality is component-wise; DataVersion::from(m) equals
\* DataVersion::new(m, 0), with get_version() = m and get_step() = 0.
C18_VersionOrder ==
    /\ last = "cmp" =>
          LET a == args.a
              b == args.b
          IN  /\ result.ab = "Less"
                    <=> (a.version < b.version
                            \/ (a.version = b.version /\ a.step < b.step))
              /\ result.ab \in {"Less", "Equal", "Greater"}
              /\ result.ab = "Less" <=> result.ba = "Greater"
              /\ result.ab = "Equal" <=> result.ba = "Equal"
              /\ result.aa = "Equal"
              /\ (result.ab # "Greater" /\ result.ba # "Greater") => a = b
              /\ (result.ab # "Greater" /\ result.bc # "Greater") => result.ac # "Greater"
              /\ (result.ab = "Less" /\ result.bc = "Less") => result.ac = "Less"
              /\ result.ab = "Equal" <=> (a.version = b.version /\ a.step = b.step)
              /\ result.eq <=> (a.version = b.version /\ a.step = b.step)
    /\ last = "from" =>
          /\ result.value = result.new
          /\ result.value = [version |-> args.a.version, step |-> 0]
          /\ result.version = args.a.version
          /\ result.step = 0

\* Three versions in increasing order have been compared: the first two differ
\* in the step only, the third has a greater major version and a smaller step.
C18_Witness ==
    /\ last = "cmp"
    /\ args.a.version = args.b.version /\ args.a.step < args.b.step
    /\ args.b.version < args.c.version /\ args.c.step < args.b.step
    /\ result.ab = "Less" /\ result.bc = "Less" /\ result.ac = "Less"

\* The decimal numerals of the integers the field "test" takes
Numeral(n) ==
    CASE n = 42 -> "42" [] n = 43 -> "43" [] n = 44 -> "44" [] n = 45 -> "45"
      [] n = 46 -> "46" [] n = 47 -> "47"

\* What a converter function is documented to do to a document
Applied(func, doc) ==
    IF "test" \in DOMAIN doc /\ "Int" \in DOMAIN doc["test"]
    THEN CASE func.name = "stringify" ->
                  [doc EXCEPT !["test"] = [String |-> Numeral(doc["test"].Int)]]
           [] func.name = "increment" ->
                  [doc EXCEPT !["test"] = [Int |-> doc["test"].Int + 1]]
           [] OTHER -> doc
    ELSE doc

\* The functions of the converters of s applied to doc one after another
RECURSIVE AppliedInOrder(_, _)
AppliedInOrder(s, doc) ==
    IF s = <<>> THEN doc
    ELSE AppliedInOrder(Tail(s), Applied(Head(s).conversion_func, doc))

\* C19  End-to-end result: for a MapDataType without hooks and walkers the
\* document after convert(doc, from, to) is the input document with the
\* functions of the in-range converters applied one after another in list
\* order; with one version-1 converter that stringifies "test", convert(0, 1)
\* turns {test: 42} into {test: "42"}, and convert(1, 2) and convert(0, 0)
\* leave it unchanged.
C19_EndToEnd ==
    (Converted /\ kind = Map /\ structure_hooks = <<>> /\ structure_walkers = <<>>) =>
        /\ data = AppliedInOrder(SelectSeq(structure_converters, InRange), input)
        /\ (/\ Len(structure_converters) = 1
            /\ structure_converters[1].to_version = [version |-> 1, step |-> 0]
            /\ structure_converters[1].conversion_func.name = "stringify"
            /\ input = [test |-> [Int |-> 42]]) =>
               /\ (from_version.version = 0 /\ to_version.version = 1)
                     => data = [test |-> [String |-> "42"]]
               /\ (from_version.version = 1 /\ to_version.version = 2)
                     => data = [test |-> [Int |-> 42]]
               /\ (from_version.version = 0 /\ to_version.version = 0)
                     => data = [test |-> [Int |-> 42]]

\* simple_conversion, after a converter that adds one: {test: 42} has become
\* {test: "43"}, and a converter out of range was not applied.
C19_Witness ==
    /\ Converted
    /\ kind = Map
    /\ structure_hooks = <<>> /\ structure_walkers = <<>>
    /\ Len(structure_converters) = 3
    /\ Len(SelectSeq(structure_converters, InRange)) = 2
    /\ input = [test |-> [Int |-> 42]]
    /\ data = [test |-> [String |-> "43"]]

\* The invocations of walkers that find a compound under their path, in order
NestingWalks ==
    SelectSeq([i \in 1..Len(calls) |-> [event |-> calls[i], after |-> After(i)]],
              LAMBDA x : /\ x.event.op = "walk"
                         /\ x.event.who.func.name = "convert_map_in_map"
                         /\ x.event.who.func.path \in DOMAIN x.event.data
                         /\ "Compound" \in DOMAIN x.event.data[x.event.who.func.path])

\* C20  Nested conversion: when a walker of the bucket an outer MapDataType
\* selects for to_version calls convert_map_in_map(inner_type, data, path,
\* from, to), outer.convert(doc, from, to) applies the full convert of
\* inner_type once for that walker to the compound under path, with the from
\* and to of the outer call, and changes no other field of the document; so
\* simple_walker turns {inner: {test: 42}} into {inner: {test: "42"}} on
\* convert(0, 1).
C20_NestedConversion ==
    (Converted /\ kind = Map) =>
        /\ Len(nested) = Len(NestingWalks)
        /\ \A k \in DOMAIN nested :
              LET walk == NestingWalks[k]
                  func == walk.event.who.func
                  before == walk.event.data
                  inner == ConvertOf(func.data_type.kind, func.data_type,
                                     before[func.path].Compound, from_version, to_version)
              IN  /\ walk.event.who \in Range(FloorBucket(structure_walkers, to_version))
                  /\ nested[k].data_type = func.data_type.name
                  /\ nested[k].path = func.path
                  /\ nested[k].from_version = from_version
                  /\ nested[k].to_version = to_version
                  /\ nested[k].before = before[func.path].Compound
                  /\ nested[k].after = inner.data
                  /\ nested[k].calls = inner.calls
                  /\ walk.after = [before EXCEPT ![func.path] = [Compound |-> inner.data]]
        /\ (/\ Len(nested) = 1
            /\ nested[1].data_type = "Test"
            /\ from_version.version = 0 /\ to_version.version = 1
            /\ structure_converters = <<>>) =>
               data = [input EXCEPT !["inner"] = [Compound |-> [test |-> [String |-> "42"]]]]

\* The call of simple_walker with hooked_type as the inner type: the inner
\* convert invoked its converter, its hook and its walker, "inner" holds
\* {test: "42"}, and the outer field "test" was stringified by a converter of
\* the outer type only.
C20_Witness ==
    /\ Converted
    /\ kind = Map
    /\ Len(nested) = 1
    /\ nested[1].data_type = "Hooked"
    /\ {nested[1].calls[i].op : i \in DOMAIN nested[1].calls}
          = {"pre_hook", "convert", "post_hook", "walk"}
    /\ "inner" \in DOMAIN data
    /\ data["inner"] = [Compound |-> [test |-> [String |-> "42"]]]
    /\ structure_converters # <<>>
    /\ data["test"] = [String |-> "42"]

\* The traversal utilities of utils.rs that take a path
TraversalUtilities ==
    {"convert_map_in_map", "convert_map_list_in_map", "convert_object_in_map",
     "convert_object_list_in_map", "convert_dynamic_in_map",
     "convert_dynamic_list_in_map", "convert_values_in_map"}

\* A traversal utility has been applied to args.doc and result holds the outcome.
Traversed == last \in TraversalUtilities

\* The warnings the call logged
Warnings == IF "warn" \in DOMAIN result THEN result.warn ELSE <<>>

\* C21  Missing-field tolerance: when the document has no field at the given
\* path, each of the seven path-addressed traversal utilities invokes no
\* converter, hook or walker of the sub-type (it does not call its convert),
\* logs nothing and leaves the document unchanged.
C21_MissingField ==
    (Traversed /\ args.path \notin DOMAIN args.doc) =>
        /\ result.nested = <<>>
        /\ Warnings = <<>>
        /\ result.data = args.doc

\* convert_object_in_map(type, doc, "missing_path", 0, 1) on a document that
\* has other fields, with a converter of the type in range.
C21_Witness ==
    /\ last = "convert_object_in_map"
    /\ args.path = "missing_path"
    /\ DOMAIN args.doc = {"field", "other"}
    /\ args.from_version.version = 0 /\ args.to_version.version = 1
    /\ args.data_type.structure_converters # <<>>
    /\ result.data = args.doc

\* The value is a list whose elements are compounds, possibly none.
IsCompoundList(v) == "List" \in DOMAIN v /\ v.List.tag = "Compound"

\* The compounds the sub-type's convert was called on, in the order of the calls
ConvertedCompounds == [i \in 1..Len(result.nested) |-> result.nested[i].before]

\* The results of those calls, in the order of the calls
ConvertResults == [i \in 1..Len(result.nested) |-> result.nested[i].after]

\* Every call recorded in result.nested is a convert call on the sub-type.
OnSubType ==
    \A i \in DOMAIN result.nested :
        /\ result.nested[i].call = "convert"
        /\ result.nested[i].data_type = args.data_type.name

\* C22  Type-mismatch tolerance: convert_map_in_map calls the sub-type's
\* convert only if the field at path is a compound, once, on that compound, and
\* otherwise leaves the document unchanged; convert_map_list_in_map calls it
\* only if the field is a list of compounds, once per element in list order,
\* and leaves the document unchanged for an empty list, a list of other
\* values and a field that is no list.
C22_TypeMismatch ==
    /\ (last = "convert_map_in_map" /\ args.path \in DOMAIN args.doc) =>
          LET field == args.doc[args.path]
          IN  /\ OnSubType
              /\ "Compound" \in DOMAIN field =>
                    /\ ConvertedCompounds = <<field.Compound>>
                    /\ result.data
                          = [args.doc EXCEPT ![args.path] = [Compound |-> ConvertResults[1]]]
              /\ "Compound" \notin DOMAIN field =>
                    (result.nested = <<>> /\ result.data = args.doc)
    /\ (last = "convert_map_list_in_map" /\ args.path \in DOMAIN args.doc) =>
          LET field == args.doc[args.path]
          IN  /\ OnSubType
              /\ IsCompoundList(field) =>
                    /\ ConvertedCompounds
                          = [i \in 1..Len(field.List.elems) |-> field.List.elems[i].Compound]
                    /\ result.data
                          = [args.doc EXCEPT ![args.path] =
                                [List |-> [tag |-> "Compound",
                                           elems |-> [i \in 1..Len(ConvertResults) |->
                                                         [Compound |-> ConvertResults[i]]]]]]
              /\ (IsCompoundList(field) /\ field.List.elems = <<>>) => result.data = args.doc
              /\ ~ IsCompoundList(field) =>
                    (result.nested = <<>> /\ result.data = args.doc)

\* convert_map_list_in_map has converted a list of two compounds from 0 to 1,
\* the first first, and both elements have changed.
C22_Witness ==
    /\ last = "convert_map_list_in_map"
    /\ args.path = "field"
    /\ args.from_version.version = 0 /\ args.to_version.version = 1
    /\ Len(result.nested) = 2
    /\ result.nested[1].before = [test |-> [Int |-> 42]]
    /\ result.nested[2].before = [test |-> [Int |-> 69]]
    /\ result.data["field"].List.elems
          = <<[Compound |-> [test |-> [String |-> "42"]]],
              [Compound |-> [test |-> [String |-> "69"]]]>>

\* Two of the requested keys are equal.
Collision(keys) == \E i, j \in DOMAIN keys : i # j /\ keys[i] = keys[j]

\* C23  Key-collision rejection: get_mut_multi(map, keys) panics and returns
\* no accessor whenever two of the N keys are equal, also when that key is not
\* in the map; when the keys are pairwise distinct (N = 0 and N = 1 included)
\* it does not panic, leaves the map unchanged and returns at position i an
\* accessor to the value stored under keys[i], or None when the key is absent,
\* and no two accessors refer to the same value.
C23_KeyCollision ==
    last = "get_mut_multi" =>
        /\ Collision(args.keys) =>
              (result.panic /\ "accessors" \notin DOMAIN result)
        /\ ~ Collision(args.keys) =>
              /\ ~ result.panic
              /\ result.map = args.map
              /\ DOMAIN result.accessors = DOMAIN args.keys
              /\ \A i \in DOMAIN args.keys :
                    IF args.keys[i] \in DOMAIN args.map
                    THEN /\ result.accessors[i].some
                         /\ result.accessors[i].slot = args.keys[i]
                         /\ result.accessors[i].value = args.map[args.keys[i]]
                    ELSE ~ result.accessors[i].some
              /\ \A i, j \in DOMAIN args.keys :
                    (i # j /\ result.accessors[i].some /\ result.accessors[j].some)
                        => result.accessors[i].slot # result.accessors[j].slot

\* get_mut_multi has panicked on three keys whose first and last are equal
\* and absent from the map.
C23_Witness ==
    /\ last = "get_mut_multi"
    /\ Len(args.keys) = 3
    /\ args.keys[1] = args.keys[3] /\ args.keys[1] # args.keys[2]
    /\ args.keys[1] \notin DOMAIN args.map
    /\ result.panic

\* C24  rename_key(map, from, to): if from is present with value x and
\* from # to, afterwards to is present with value x, from is absent and every
\* other key keeps its value; if from is absent the map is unchanged.
C24_RenameKey ==
    last = "rename_key" =>
        /\ (args.from \in DOMAIN args.map /\ args.from # args.to) =>
              /\ args.to \in DOMAIN result.map
              /\ result.map[args.to] = args.map[args.from]
              /\ args.from \notin DOMAIN result.map
              /\ DOMAIN result.map = (DOMAIN args.map \ {args.from}) \cup {args.to}
              /\ \A k \in DOMAIN args.map \ {args.from, args.to} :
                    result.map[k] = args.map[k]
        /\ args.from \notin DOMAIN args.map => result.map = args.map

\* tests::rename_key with another key in the map: "hello" has been renamed to
\* "Hello".
C24_Witness ==
    /\ last = "rename_key"
    /\ args.from = "hello" /\ args.to = "Hello"
    /\ DOMAIN args.map = {"hello", "other"}
    /\ args.map["hello"] = [String |-> "world"]
    /\ DOMAIN result.map = {"Hello", "other"}
    /\ result.map["Hello"] = [String |-> "world"]

\* The variants of the values of a sequence
TagsOf(s) == {(CHOOSE t \in DOMAIN s[i] : TRUE) : i \in DOMAIN s}

\* C25  convert_dynamic_list_in_map converts every element of the list field
\* once, in list order, through the dynamic data type; the field then holds
\* all the converted elements in list order, also when they are no longer of
\* one variant, in which case a warning is logged; a field that is no list is
\* left unchanged, and an empty list stays an empty list.
C25_DynamicList ==
    (last = "convert_dynamic_list_in_map" /\ args.path \in DOMAIN args.doc) =>
        LET field == args.doc[args.path]
        IN  /\ OnSubType
            /\ "List" \notin DOMAIN field =>
                  (result.nested = <<>> /\ result.data = args.doc /\ Warnings = <<>>)
            /\ "List" \in DOMAIN field =>
                  /\ ConvertedCompounds = field.List.elems
                  /\ DOMAIN result.data = DOMAIN args.doc
                  /\ \A k \in DOMAIN args.doc \ {args.path} : result.data[k] = args.doc[k]
                  /\ "List" \in DOMAIN result.data[args.path]
                  /\ result.data[args.path].List.elems = ConvertResults
                  /\ Cardinality(TagsOf(ConvertResults)) > 1 => Warnings # <<>>

\* The thread has called convert.
Started(t) == threads[t].pc # "idle"

\* The thread's convert call has returned.
Returned(t) == threads[t].pc = "done"

\* The convert call of the thread, made with no other call in progress
Alone(t) ==
    ConvertOf(kind, self, threads[t].doc, threads[t].from_version, threads[t].to_version)

Without(s, k) == [i \in 1..(Len(s) - 1) |-> IF i < k THEN s[i] ELSE s[i + 1]]

\* Every element of s is in t, in the same order; t has at most one more.
Kept(s, t) == t = s \/ \E k \in DOMAIN t : Without(t, k) = s

\* The list s is the beginning of the list t.
Prefix(s, t) == Len(s) <= Len(t) /\ \A i \in DOMAIN s : t[i] = s[i]

\* Every bucket of m is in n under the same key, with its elements in place.
BucketsKept(m, n) ==
    /\ DOMAIN m \subseteq DOMAIN n
    /\ \A k \in DOMAIN m : Prefix(m[k], n[k])

\* C27  Registries are append-only and untouched by conversion: a convert call
\* leaves the converter list, the hook map, the walker map and walkers_by_id
\* as they were, and no step (add_structure_converter, add_structure_hook,
\* add_structure_walker, add_converter_for_id, add_walker_for_id,
\* copy_walkers) removes or replaces a converter, hook or walker registered
\* before.
C27_AppendOnly ==
    [][/\ last' = "convert" =>
             UNCHANGED <<structure_converters, structure_hooks, structure_walkers,
                         walkers_by_id>>
       /\ Kept(structure_converters, structure_converters')
       /\ BucketsKept(structure_hooks, structure_hooks')
       /\ BucketsKept(structure_walkers, structure_walkers')
       /\ DOMAIN walkers_by_id \subseteq DOMAIN walkers_by_id'
       /\ \A id \in DOMAIN walkers_by_id :
             BucketsKept(walkers_by_id[id], walkers_by_id'[id])]_vars

\* An IdDataType with a converter registered for an id, a hook and two id
\* walkers in one bucket, one of them copied there, has been called.
C27_Witness ==
    /\ Converted
    /\ kind = Id
    /\ \E i \in DOMAIN structure_converters :
          "id_str" \in DOMAIN structure_converters[i].conversion_func
    /\ copied # {}
    /\ \E id \in DOMAIN walkers_by_id, v \in Versions :
          v \in DOMAIN walkers_by_id[id] /\ Len(walkers_by_id[id][v]) = 2
    /\ calls # <<>>

\* C28  Sorted-list invariant: after any sequence of add_structure_converter
\* and add_converter_for_id calls, in any order of versions, the converter list
\* is in non-decreasing to_version order, holds each registered converter
\* exactly once, and holds the converters of equal to_version next to each
\* other.
C28_SortedList ==
    LET s == structure_converters
    IN  /\ \A i \in DOMAIN s : i > 1 => ~ Lt(s[i].to_version, s[i - 1].to_version)
        /\ \A n \in 1..Len(s) : Cardinality({i \in DOMAIN s : s[i].ord = n}) = 1
        /\ \A i, j, k \in DOMAIN s :
              (i < k /\ k < j /\ s[i].to_version = s[j].to_version)
                  => s[k].to_version = s[i].to_version

\* Three converters have been registered on an IdDataType, one of them for an
\* id, not in the order of their versions, and two of them for one version.
C28_Witness ==
    LET s == structure_converters
    IN  /\ kind = Id
        /\ Len(s) = 3
        /\ \E i \in DOMAIN s : "id_str" \in DOMAIN s[i].conversion_func
        /\ \E i, j \in DOMAIN s :
              i < j /\ s[i].ord > s[j].ord /\ Lt(s[i].to_version, s[j].to_version)
        /\ \E i, j \in DOMAIN s : i # j /\ s[i].to_version = s[j].to_version

\* The version a hook bucket is looked up with at a call site: the converter's
\* to_version for the pre_hooks around a converter, to_version otherwise.
QueryVersion(op, site) ==
    IF op = "pre_hook" /\ site # 0 THEN structure_converters[site].to_version
    ELSE to_version

\* The key of hook bucket k is the greatest registered key <= v.
IsFloorKey(k, v) ==
    /\ k \in DOMAIN structure_hooks
    /\ Le(k, v)
    /\ \A j \in DOMAIN structure_hooks : Le(j, v) => Le(j, k)

\* C29  Hook floor lookup: the hook bucket used for a query version X is the
\* bucket with the greatest registered key <= X and only that bucket: each of
\* its hooks fires once, no hook of a bucket with a smaller key or with a key
\* > X fires, and no hook fires when every registered key is > X; within a
\* bucket the hooks are in add_structure_hook call order.
C29_HookFloorLookup ==
    /\ \A k \in DOMAIN structure_hooks :
          \A i \in DOMAIN structure_hooks[k] :
              structure_hooks[k][i] = [version |-> k, n |-> i]
    /\ Converted =>
          \A op \in {"pre_hook", "post_hook"}, s \in Sites :
              LET X == QueryVersion(op, s)
                  fired == Who(EventsAt(op, s))
              IN  /\ \A i \in DOMAIN fired : IsFloorKey(fired[i].version, X)
                  /\ \A k \in DOMAIN structure_hooks :
                        \A h \in Range(structure_hooks[k]) :
                            Cardinality({i \in DOMAIN fired : fired[i] = h})
                                = IF IsFloorKey(k, X) THEN 1 ELSE 0
                  /\ (\A k \in DOMAIN structure_hooks : Lt(X, k)) => fired = <<>>

\* Hook buckets are registered below, at and above the version of a lookup,
\* and the hook of the middle one fires.
C29_Witness ==
    /\ Converted
    /\ \E k1, k2, k3 \in DOMAIN structure_hooks :
          /\ Lt(k1, k2) /\ Le(k2, to_version) /\ Lt(to_version, k3)
          /\ \E i \in Indices("pre_hook") : calls[i].who.version = k2
          /\ \E i \in Indices("post_hook") : calls[i].who.version = k2

\* Every callback of t, every convert call those callbacks made (log) and
\* every callback invoked in them received from and to.
RECURSIVE VersionsPassed(_, _, _, _)
VersionsPassed(t, log, from, to) ==
    /\ \A i \in DOMAIN t : t[i].from_version = from /\ t[i].to_version = to
    /\ \A n \in DOMAIN log :
          /\ log[n].from_version = from
          /\ log[n].to_version = to
          /\ "calls" \in DOMAIN log[n] => VersionsPassed(log[n].calls, log[n].nested, from, to)

\* C30  Version arguments are passed through unchanged: every converter,
\* pre_hook, post_hook and walker invoked during convert(doc, from, to), also
\* in the conversions nested in it through the traversal utilities and the
\* DataWalker*Paths walkers, receives the from_version and to_version of the
\* outer call, never a converter's to_version or an intermediate version.
C30_VersionsPassedThrough ==
    Converted => VersionsPassed(calls, nested, from_version, to_version)

\* A call from 0 to 2 invokes a converter of version 1 between hooks and a
\* DataWalkerMapTypePaths walker whose type has such a walker itself; the
\* innermost type invokes its converter of version 1 and its hook.
C30_Witness ==
    /\ Converted
    /\ from_version = [version |-> 0, step |-> 0]
    /\ to_version = [version |-> 2, step |-> 0]
    /\ \E i \in Indices("convert") : calls[i].who.to_version = [version |-> 1, step |-> 0]
    /\ \E i \in Indices("walk") : calls[i].who.func.name = "DataWalkerMapTypePaths"
    /\ \E n \in DOMAIN nested :
          /\ "calls" \in DOMAIN nested[n]
          /\ nested[n].data_type = "Walking"
          /\ \E m \in DOMAIN nested[n].nested :
                /\ nested[n].nested[m].data_type = "Hooked"
                /\ {nested[n].nested[m].calls[i].op : i \in DOMAIN nested[n].nested[m].calls}
                      = {"pre_hook", "convert", "post_hook", "walk"}

\* The converters a sequence of calls invokes
ConvertersApplied(t) == {t[i].who : i \in {j \in DOMAIN t : t[j].op = "convert"}}

\* C31  Bare-integer versions mean step 0 on both ends: convert(doc, a, b)
\* with bare major versions a < b applies a converter registered at (m, s) iff
\* m = a and s > 0, or a < m < b, or m = b and s = 0.  Converters at steps > 0
\* of the target major are not applied, those at steps > 0 of the source
\* major are.
C31_BareVersions ==
    (Converted /\ from_version.version < to_version.version) =>
        /\ from_version.step = 0
        /\ to_version.step = 0
        /\ \A c \in Range(structure_converters) :
              c \in ConvertersApplied(calls) <=>
                  \/ c.to_version.version = from_version.version /\ c.to_version.step > 0
                  \/ /\ from_version.version < c.to_version.version
                     /\ c.to_version.version < to_version.version
                  \/ c.to_version.version = to_version.version /\ c.to_version.step = 0

\* A call from a to b with a converter at a step > 0 of a, which is applied,
\* one at step 0 of b, which is applied, and one at a step > 0 of b, which is not.
C31_Witness ==
    /\ Converted
    /\ from_version.version < to_version.version
    /\ \E c, d, e \in Range(structure_converters) :
          /\ c.to_version.version = from_version.version /\ c.to_version.step > 0
          /\ d.to_version = [version |-> to_version.version, step |-> 0]
          /\ e.to_version.version = to_version.version /\ e.to_version.step > 0
          /\ c \in ConvertersApplied(calls) /\ d \in ConvertersApplied(calls) /\ e \notin ConvertersApplied(calls)

\* The id a document that enters with id X has when the converters in range
\* and then the generic walkers of bucket floor(to_version) have run: a
\* "retag" converter renames "foo" to "bar", a "walk_retag" walker renames
\* "bar" to "foo".
IdAtDispatch(X) ==
    LET converted ==
            IF X = "foo" /\ \E c \in Range(structure_converters) :
                               InRange(c) /\ c.conversion_func.name = "retag"
            THEN "bar" ELSE X
    IN  IF converted = "bar"
              /\ \E w \in Range(FloorBucket(structure_walkers, to_version)) :
                    w.func.name = "walk_retag"
        THEN "foo" ELSE converted

\* C32  The discriminator is read late: IdDataType.convert selects the id
\* walkers from the "id" the document has after the in-range converters,
\* their hooks, the trailing pre_hooks and the generic walkers have run.  If
\* one of those changes the id from X to Y, the walkers registered for Y run
\* and those registered for X do not.
C32_LateDiscriminator ==
    (Converted /\ kind = Id) =>
        \A X \in Ids :
            HasId(input, X) =>
                /\ Who(IdWalkEvents) =
                       IF IdAtDispatch(X) \in DOMAIN walkers_by_id
                       THEN FloorBucket(walkers_by_id[IdAtDispatch(X)], to_version)
                       ELSE <<>>
                /\ \A i \in IdWalks :
                      /\ calls[i].who.id = IdAtDispatch(X)
                      /\ HasId(calls[i].data, IdAtDispatch(X))
                      /\ \A j \in DOMAIN calls :
                            (\/ calls[j].op = "convert"
                             \/ calls[j].site # 0
                             \/ calls[j].op = "pre_hook"
                             \/ (calls[j].op = "walk" /\ calls[j].who.id = "*")) => j < i

\* A document that enters with id "foo" and is renamed to "bar" by a converter
\* in range: walkers are registered for both ids, those of "bar" run.
C32_Witness ==
    /\ Converted
    /\ kind = Id
    /\ HasId(input, "foo")
    /\ IdAtDispatch("foo") = "bar"
    /\ {"foo", "bar"} \subseteq DOMAIN walkers_by_id
    /\ IdWalks # {}
    /\ \A i \in IdWalks : calls[i].who.id = "bar"

\* The walkers a successful call copy_walkers(v, f, t) copied, for some f
CopiedTo(t, v) == {c.walker : c \in {d \in copied : d.to_id = t /\ d.version = v
                                                       /\ d.bucket = d.floor}}

\* C33  copy_walkers can shadow the target's earlier walkers.  After a
\* successful copy_walkers(version, from_id, to_id), a convert of a to_id
\* document with to_version >= version, where the other buckets of to_id have
\* keys below version, invokes the walkers of to_id's bucket at version and
\* no other: the copied walkers and those added at version, and none by virtue
\* of a lower bucket of to_id.  Where to_id has a bucket with a key k > version
\* and to_version >= k, the walkers invoked are those of the bucket with the
\* greatest key <= to_version, which is not the bucket that holds the copies.
C33_CopyShadows ==
    (Converted /\ kind = Id) =>
        \A t \in Ids : \A v \in {c.version : c \in copied} :
            (HasId(data, t) /\ CopiedTo(t, v) # {} /\ Le(v, to_version)) =>
                /\ (\A k \in KeysOf(walkers_by_id, t) : Le(k, v)) =>
                      /\ Who(IdWalkEvents) = walkers_by_id[t][v]
                      /\ \A w \in CopiedTo(t, v) : Walked(w)
                      /\ \A i \in IdWalks :
                            \/ calls[i].who \in CopiedTo(t, v)
                            \/ calls[i].who.id = t /\ calls[i].who.version = v
                      /\ \A k \in KeysOf(walkers_by_id, t) :
                            Lt(k, v) => \A w \in Range(walkers_by_id[t][k]) :
                                            Walked(w) => w \in Range(walkers_by_id[t][v])
                /\ (\E k \in KeysOf(walkers_by_id, t) : Lt(v, k) /\ Le(k, to_version)) =>
                      /\ Who(IdWalkEvents) = FloorBucket(walkers_by_id[t], to_version)
                      /\ ~ FloorKey(walkers_by_id[t], v)
                      /\ \A w \in CopiedTo(t, v) :
                            Walked(w) => w \in Range(FloorBucket(walkers_by_id[t], to_version))

\* "bar" has a walker of its own at a lower version, a walker of "foo" was
\* copied to "bar" at v, and a document with id "bar" is converted to a
\* version >= v: the copied walker runs and the walker "bar" had does not.
C33_Witness ==
    /\ Converted
    /\ kind = Id
    /\ HasId(data, "bar")
    /\ \E c \in copied :
          /\ c.from_id = "foo" /\ c.to_id = "bar" /\ c.bucket = c.floor
          /\ Le(c.version, to_version)
          /\ \A k \in KeysOf(walkers_by_id, "bar") : Le(k, c.version)
          /\ Walked(c.walker)
          /\ \E k \in KeysOf(walkers_by_id, "bar") :
                /\ Lt(k, c.version)
                /\ \E w \in Range(walkers_by_id["bar"][k]) : w.id = "bar" /\ ~ Walked(w)

\* A later bucket of "bar" hides the copy.
C33_WitnessAbove ==
    /\ Converted
    /\ kind = Id
    /\ HasId(data, "bar")
    /\ \E c \in copied :
          /\ c.from_id = "foo" /\ c.to_id = "bar" /\ c.bucket = c.floor
          /\ \E k \in KeysOf(walkers_by_id, "bar") : Lt(c.version, k) /\ Le(k, to_version)
          /\ ~ Walked(c.walker)
          /\ IdWalks # {}

\* The walkers the successful copy_walkers calls so far copied to t
CopiedInto(t) == {c.walker : c \in {d \in copied : d.to_id = t /\ d.bucket = d.floor}}

\* The buckets of id in registry m
BucketsOf(m, id) == IF id \in DOMAIN m THEN m[id] ELSE <<>>

\* C34  copy_walkers copies a snapshot.  add_walker_for_id(v, X, w) changes
\* the buckets of X only, so a walker added to from_id after a copy does not
\* reach to_id and a walker added to to_id does not reach from_id; a call
\* copy_walkers(v, from_id, to_id) with from_id # to_id leaves from_id's
\* buckets as they are; and a convert of a document with id X invokes a
\* walker that was registered for another id only if a copy_walkers call
\* found it in the source's bucket and copied it to X.
C34_CopySnapshot ==
    [][/\ \A v \in Versions, X \in Ids :
             add_walker_for_id(v, X, Opaque) =>
                 \A Y \in Ids \ {X} :
                     BucketsOf(walkers_by_id', Y) = BucketsOf(walkers_by_id, Y)
       /\ \A v \in Versions, f \in Ids, t \in Ids :
             (copy_walkers(v, f, t) /\ f # t) =>
                 BucketsOf(walkers_by_id', f) = BucketsOf(walkers_by_id, f)
       /\ \A X \in Ids :
             (last' = "convert" /\ HasId(data', X)) =>
                 \A i \in DOMAIN calls' :
                     (calls'[i].op = "walk" /\ calls'[i].who.id # X)
                         => calls'[i].who \in CopiedInto(X)]_vars

\* A walker of "foo" was copied to "bar"; afterwards a walker was added to
\* "foo" in the bucket the copy was taken from.  A document with id "bar" is
\* converted: the copied walker runs, the walker added later does not.
C34_Witness ==
    /\ Converted
    /\ kind = Id
    /\ HasId(data, "bar")
    /\ \E c \in copied :
          /\ c.from_id = "foo" /\ c.to_id = "bar" /\ c.bucket = c.floor
          /\ c.walker.id = "foo"
          /\ Walked(c.walker)
          /\ \E w \in Range(walkers_by_id["foo"][c.bucket]) :
                /\ w.id = "foo"
                /\ w.n > c.walker.n
                /\ w \notin CopiedInto("bar")
                /\ ~ Walked(w)

\* C35  rename_key edge cases: when from and to are both present and differ,
\* to holds the value from had, from is gone and the map has exactly one key
\* less; when from = to and the key is present, the map has the same keys and
\* values afterwards; in every other case the number of keys is unchanged.
C35_RenameKeyEdges ==
    last = "rename_key" =>
        LET both == args.from \in DOMAIN args.map /\ args.to \in DOMAIN args.map
                        /\ args.from # args.to
            same == args.from = args.to /\ args.from \in DOMAIN args.map
        IN  /\ both =>
                  /\ result.map[args.to] = args.map[args.from]
                  /\ args.from \notin DOMAIN result.map
                  /\ Cardinality(DOMAIN result.map) = Cardinality(DOMAIN args.map) - 1
            /\ same => result.map = args.map
            /\ ~ both => Cardinality(DOMAIN result.map) = Cardinality(DOMAIN args.map)

\* "hello" is renamed to "Hello", which is present with another value: the
\* value of "hello" replaces it and two keys are left of three.
C35_Witness ==
    /\ last = "rename_key"
    /\ args.from = "hello" /\ args.to = "Hello"
    /\ DOMAIN args.map = {"hello", "Hello", "other"}
    /\ args.map["hello"] = [String |-> "world"]
    /\ args.map["Hello"] = [Int |-> 42]
    /\ DOMAIN result.map = {"Hello", "other"}
    /\ result.map["Hello"] = [String |-> "world"]

\* The keys of the map that the rule renames
RenamedKeys == {k \in DOMAIN args.map : args.renamer[k].some}

\* The keys of the map that the rule renames to k
SourcesOf(k) == {j \in RenamedKeys : args.renamer[j].value = k}

\* C36  rename_keys applies all renames simultaneously: every key the rule
\* renames is removed before any pair (new key, old value) is inserted.  The
\* map then holds the keys the rule leaves alone and the new keys; a new key
\* holds the old value of a key renamed to it (of the only such key when
\* there is one), so a rule that swaps two keys exchanges their values; a key the rule leaves alone keeps its value unless
\* a renamed key takes its name; the call does not panic.
C36_RenameKeys ==
    last = "rename_keys" =>
        /\ ~ result.panic
        /\ DOMAIN result.map =
               (DOMAIN args.map \ RenamedKeys) \cup {args.renamer[k].value : k \in RenamedKeys}
        /\ \A k \in DOMAIN result.map :
              IF SourcesOf(k) = {} THEN result.map[k] = args.map[k]
              ELSE result.map[k] \in {args.map[j] : j \in SourcesOf(k)}
        /\ \A a \in RenamedKeys, b \in RenamedKeys :
              (a # b /\ SourcesOf(a) = {b} /\ SourcesOf(b) = {a}) =>
                  result.map[a] = args.map[b] /\ result.map[b] = args.map[a]

\* The rule swaps "hello" and "Hello", which hold different values, and
\* leaves "other" alone: the two values are exchanged.
C36_Witness ==
    /\ last = "rename_keys"
    /\ DOMAIN args.map = {"hello", "Hello", "other"}
    /\ args.map["hello"] = [String |-> "world"]
    /\ args.map["Hello"] = [Int |-> 42]
    /\ args.renamer["hello"] = [some |-> TRUE, value |-> "Hello"]
    /\ args.renamer["Hello"] = [some |-> TRUE, value |-> "hello"]
    /\ ~ args.renamer["other"].some
    /\ ~ result.panic
    /\ result.map["hello"] = [Int |-> 42]
    /\ result.map["Hello"] = [String |-> "world"]
    /\ result.map["other"] = args.map["other"]

\* The calls of the log made for the value under key k
CallsFor(log, k) == {i \in DOMAIN log : log[i].path = k}

\* The map out is the map m after the data type's convert, called from
\* args.from_version to args.to_version, has been applied once to each value of
\* m that is a compound and to nothing else, log being the calls made.
ValuesConverted(m, out, log) ==
    /\ DOMAIN out = DOMAIN m
    /\ \A i \in DOMAIN log : log[i].path \in DOMAIN m
    /\ \A k \in DOMAIN m :
          IF IsCompound(m[k])
          THEN /\ Cardinality(CallsFor(log, k)) = 1
               /\ \A i \in CallsFor(log, k) :
                     /\ log[i].call = "convert"
                     /\ log[i].data_type = args.data_type.name
                     /\ log[i].from_version = args.from_version
                     /\ log[i].to_version = args.to_version
                     /\ log[i].before = m[k].Compound
                     /\ out[k] = [Compound |-> log[i].after]
          ELSE /\ CallsFor(log, k) = {}
               /\ out[k] = m[k]

\* C37  convert_values applies the map data type's convert exactly once to
\* every value of the map that is a compound and to no other value, and leaves
\* the key set and the values that are no compounds unchanged.
\* convert_values_in_map does the same to the compound stored under path,
\* leaving the other fields alone, and changes nothing and calls nothing when
\* the field is absent or no compound.
C37_ConvertValues ==
    /\ last = "convert_values" => ValuesConverted(args.doc, result.data, result.nested)
    /\ last = "convert_values_in_map" =>
           IF args.path \in DOMAIN args.doc /\ IsCompound(args.doc[args.path])
           THEN /\ DOMAIN result.data = DOMAIN args.doc
                /\ \A k \in DOMAIN args.doc \ {args.path} : result.data[k] = args.doc[k]
                /\ IsCompound(result.data[args.path])
                /\ ValuesConverted(args.doc[args.path].Compound,
                                   result.data[args.path].Compound, result.nested)
           ELSE result.data = args.doc /\ result.nested = <<>>

\* convert_values from version 0 to 1 on a map with two compounds and a
\* scalar: two calls, each compound converted, the scalar as it was.
C37_Witness ==
    /\ last = "convert_values"
    /\ args.data_type.name = "Test"
    /\ args.from_version.version = 0 /\ args.to_version.version = 1
    /\ DOMAIN args.doc = {"a", "b", "c"}
    /\ args.doc["a"] = [Compound |-> [k \in {"test"} |-> [Int |-> 42]]]
    /\ args.doc["b"] = [Int |-> 42]
    /\ args.doc["c"] = [Compound |-> [k \in {"test"} |-> [Int |-> 69]]]
    /\ Len(result.nested) = 2
    /\ result.data["a"] = [Compound |-> [k \in {"test"} |-> [String |-> "42"]]]
    /\ result.data["b"] = [Int |-> 42]
    /\ result.data["c"] = [Compound |-> [k \in {"test"} |-> [String |-> "69"]]]

\* convert_values_in_map from version 0 to 1 on a field that holds a compound
\* with a compound and a scalar: one call, and on a field that is no compound:
\* none.
C37_WitnessInMap ==
    /\ last = "convert_values_in_map"
    /\ args.path = "field"
    /\ args.from_version.version = 0 /\ args.to_version.version = 1
    /\ "field" \in DOMAIN args.doc
    /\ IsCompound(args.doc["field"])
    /\ DOMAIN args.doc["field"].Compound = {"a", "b"}
    /\ Len(result.nested) = 1
    /\ result.data # args.doc

\* The greatest member of a finite set of naturals, 0 for the empty set
MaxOf(S) == IF S = {} THEN 0 ELSE CHOOSE m \in S : \A n \in S : n <= m

\* The nesting depth of a value: 1 for a scalar, one more than that of its
\* deepest member for a compound or a list
RECURSIVE NestingDepth(_)
NestingDepth(v) ==
    IF "Compound" \in DOMAIN v
    THEN 1 + MaxOf({NestingDepth(v.Compound[k]) : k \in DOMAIN v.Compound})
    ELSE IF "List" \in DOMAIN v
    THEN 1 + MaxOf({NestingDepth(v.List.elems[i]) : i \in DOMAIN v.List.elems})
    ELSE 1

\* The nesting depth of the document a call was handed: a compound for a
\* MapDataType and an IdDataType, a value for the others
DocumentDepth(doc) ==
    IF kind \in {"MapDataType", "IdDataType"}
    THEN 1 + MaxOf({NestingDepth(doc[k]) : k \in DOMAIN doc})
    ELSE NestingDepth(doc)

\* The callbacks t of one call are one pass over the converter list, in list
\* order and with no converter invoked twice, followed by one pass after the
\* loop in which no hook and no walker is invoked twice for the same purpose.
OnePass(t) ==
    \A i \in DOMAIN t, j \in DOMAIN t :
        i < j =>
            /\ t[i].site = 0 => t[j].site = 0
            /\ t[j].site # 0 => t[i].site <= t[j].site
            /\ t[i].op = t[j].op /\ t[i].site = t[j].site => t[i].who # t[j].who
            /\ t[i].op = "convert" /\ t[j].op = "convert" =>
                   t[i].site < t[j].site /\ t[i].who # t[j].who

\* The convert calls in progress in the thread, the outermost first
CallStack(t) ==
    IF "stack" \in DOMAIN threads[t] THEN threads[t].stack ELSE <<>>

\* The call of the thread that has returned left the document and invoked
\* the callbacks as convert does when taken as one step.
StackMatchesConvert ==
    \A t \in Threads :
        (Returned(t) /\ "st" \in DOMAIN threads[t] /\ "doc" \in DOMAIN threads[t]) =>
            \E r \in {ConvertOf(kind, [name |-> "self", kind |-> kind,
                                       structure_converters |-> structure_converters,
                                       structure_hooks |-> structure_hooks,
                                       structure_walkers |-> structure_walkers,
                                       walkers_by_id |-> walkers_by_id],
                                threads[t].doc, threads[t].from_version,
                                threads[t].to_version)} :
                /\ threads[t].st.data = r.data
                /\ threads[t].st.calls = r.calls

\* C38  Termination: with a finite registry whose callbacks return and whose
\* walkers convert only values nested in the document, every convert call
\* returns; each call, the outermost and those nested in it, passes once over
\* its converter list, invoking no converter twice, and once over what
\* follows the loop; and the convert calls in progress never nest deeper than
\* the document.
C38_Termination ==
    /\ \A t \in Threads : Started(t) ~> Returned(t)
    /\ [](\A t \in Threads :
             /\ Started(t) => Len(CallStack(t)) <= DocumentDepth(threads[t].doc)
             /\ \A n \in DOMAIN CallStack(t) : OnePass(CallStack(t)[n].st.calls)
             /\ Returned(t) => OnePass(threads[t].st.calls))

\* A call on deep_type from version 0 to 2 is three calls deep in a
\* document of depth four, the outermost having invoked both converters.
C38_Witness ==
    /\ Len(CallStack("t1")) = 3
    /\ DocumentDepth(threads["t1"].doc) = 4
    /\ Len(structure_converters) = 2
    /\ Len(SelectSeq(CallStack("t1")[1].st.calls, LAMBDA e : e.op = "convert")) = 2

\* That call has returned.
C38_WitnessReturned ==
    /\ Returned("t1")
    /\ DocumentDepth(threads["t1"].doc) = 4
    /\ Len(SelectSeq(threads["t1"].st.calls, LAMBDA e : e.op = "convert")) = 2
    /\ Len(SelectSeq(threads["t1"].st.calls, LAMBDA e : e.op = "walk")) = 3

====
